---- MODULE Spec2Model ----
(***************************************************************************)
(* Inflectiv vault: the Token Authority (src/vault/auth.py) and the        *)
(* authenticated request surface (src/vault/vault_server.py).              *)
(*                                                                         *)
(* Raw tokens are the integers 1..NumTokens.  A token's first eight        *)
(* characters (the rate limiter's key) are its prefix class TokenKey(t);   *)
(* BodiesPerPrefix tokens share each prefix.  sha256 is an injective map   *)
(* into a range disjoint from the raw tokens.  Time is an integer clock.   *)
(***************************************************************************)
EXTENDS Integers, Sequences, FiniteSets, TLC

\* ---- bounds of the model ------------------------------------------------
NumPrefixes     == 2
BodiesPerPrefix == 2
MaxTime         == 2
MaxStored       == 2
RateLimitMax    == 2      \* VAULT_RATE_LIMIT_MAX, 10 unless configured
RateLimitWindow == 2      \* VAULT_RATE_LIMIT_WINDOW, 60 unless configured
MaxDoc           == 3     \* pieces of text a document may hold before a write
MaxContributions == 2
\* a document is written to while it has fewer pieces than this
MaxText == 5
\* the migration pass is run at most this often
MaxRuns == 3
\* a source of the small kind returns at most this many hits
MaxHits == 2
\* the instants the hits are stamped with are 1..MaxStamp
MaxStamp == 2
\* the vault is followed up to this age in days
MaxAge == 15
\* the queries made after the server was started
MaxQueries == 22
\* the requests that are in flight at the same time
NumProcs == 2

NumTokens == NumPrefixes * BodiesPerPrefix
Tokens    == 1..NumTokens
Times     == 0..MaxTime

\* ---- environment --------------------------------------------------------
\* os.environ.get("VAULT_TOKEN", ""): the empty string, which is no token
NoToken == 0
\* the token_hash literal "env-bypass" of the bypass record; not a digest
EnvBypassHash == 0

\* now       the clock read by time.time() and datetime.now()
\* tokens    VaultAuth._config["tokens"]
\* saved     the tokens in the configuration file on disk
\* attempts  RateLimiter._attempts
\* env       the process environment
\* issued    the raw tokens create_token has returned so far
\* revoked   the issued tokens for which revoke has returned
\* limited   the limiter keys that have had an attempt rejected
\* ret       the last direct call of a VaultAuth method and what it returned
VARIABLES now, tokens, saved, attempts, env, issued, revoked, limited, ret

\* secret_files  the *.enc files of the KeyStore directory
\* mem_files     the files of the MemoryStore root (VAULT_ROOT/memory)
\* pending       VAULT_ROOT/staging/pending.jsonl
\* approved      VAULT_ROOT/staging/approved.jsonl
\* stats         VAULT_ROOT/staging/stats.json, the counters ledger
\* root_files    the files import_amps writes directly under VAULT_ROOT
\* next_id       the contribution ids handed out so far (uuid4 is fresh)
\* resp          the last request and the response it got
VARIABLES secret_files, mem_files, pending, approved, stats, root_files,
          next_id, resp

\* stored    for each secret name, what the last direct KeyStore.store or
\*           KeyStore.delete of that very name left: a value or nothing
\* outside   the files of the host that lie outside the MemoryStore root
\* runs      the number of plaintext-to-encrypted migration passes made
\* world     what the sources of the QueryEngine hold or answer
\* out       the last call of QueryEngine.query, the hits it pooled
\*           (all_results) and what it returned
VARIABLES stored, outside, runs, world, out

\* age_days  the whole days between created_at of vault_config.json and the
\*           present, as _is_grace_active computes them
\* procs     the requests in flight that share the staging files: for each
\*           its position in the handler and what it has read
\* flock     for each staging file the request that holds its flock, if any
\* base      the counters ledger as it was when the requests in flight began
VARIABLES age_days, procs, flock, base

gateVars == <<age_days, procs, flock, base>>

libVars == <<stored, outside, runs, world, out, gateVars>>

vaultVars == <<secret_files, mem_files, pending, approved, stats, root_files,
               next_id>>
serverVars == <<secret_files, mem_files, pending, approved, stats, root_files,
                next_id, resp, libVars>>

vars == <<now, tokens, saved, attempts, env, issued, revoked, limited, ret,
          secret_files, mem_files, pending, approved, stats, root_files,
          next_id, resp, libVars>>

\* ---- pure functions of auth.py ------------------------------------------
\* token[:8]
TokenKey(token) == ((token - 1) \div BodiesPerPrefix) + 1

Keys == 1..NumPrefixes

\* a store that keeps the token itself
_hashPlain(token) == token

\* VaultAuth._hash: sha256 hex digest, never equal to a raw token
_hash(token) == token + NumTokens

\* The expires strings a caller can pass.  fmt is what the string is:
\*   "null"  None or ""                      "aware" ISO-8601 with an offset
\*   "naive" ISO-8601 without an offset      "bad"   not ISO-8601
\* at is the instant the string denotes.
NullExpiry == [fmt |-> "null", at |-> 0]
ExpiryValues ==
    {NullExpiry} \cup [fmt : {"aware", "naive", "bad"}, at : {1}]

\* the instant the expiry denotes is before t
ExpiryLiesInPast(e, t) == e.fmt # "null" /\ e.at < t

\* TokenRecord.is_expired: "True", "False", or the TypeError raised by
\* comparing an aware datetime with a naive one
is_expired(record, t) ==
    CASE record.expires.fmt = "null"  -> "False"
      [] record.expires.fmt = "bad"   -> "False"
      [] record.expires.fmt = "naive" -> "TypeError"
      [] record.expires.fmt = "aware" -> IF t > record.expires.at
                                         THEN "True" ELSE "False"

\* RateLimiter.check, the pruning
Pruned(list, t) == SelectSeq(list, LAMBDA a : t - a < RateLimitWindow)

\* an off-by-one limiter: len > max
AdmitsOffByOne(list) == ~(Len(list) > RateLimitMax)

\* RateLimiter.check, the verdict on the pruned list
Admits(list) == ~(Len(list) >= RateLimitMax)

\* a limiter that records the attempt before it tests the limit
checkRecordFirst(list, t) == Append(Pruned(list, t), t)

\* RateLimiter.check, the new attempt list
check(list, t) ==
    IF Admits(Pruned(list, t)) THEN Append(Pruned(list, t), t)
    ELSE Pruned(list, t)

\* RateLimiter.seconds_until_reset
SeqMin(list) == CHOOSE m \in {list[i] : i \in DOMAIN list} :
                    \A i \in DOMAIN list : m <= list[i]
seconds_until_reset(list, t) ==
    IF list = <<>> THEN 0
    ELSE LET remaining == RateLimitWindow - (t - SeqMin(list))
         IN IF remaining > 1 THEN remaining ELSE 1

None == [kind |-> "none"]
Raised == [kind |-> "raise"]
Some(record) == [kind |-> "record", record |-> record]

BypassRecord(t) ==
    [token_hash |-> EnvBypassHash, role |-> "owner", agent |-> "env",
     label |-> <<"env-token">>, created |-> t, expires |-> NullExpiry]

\* VaultAuth.validate, lines 125-135: the dev bypass
BypassActive(e, token) ==
    /\ e.VAULT_ENV # "production"
    /\ e.VAULT_TOKEN # NoToken
    /\ token = e.VAULT_TOKEN

\* VaultAuth.validate, lines 136-143: the first stored record with the hash
Lookup(toks, token, t) ==
    LET matches == SelectSeq(toks, LAMBDA r : r.token_hash = _hash(token))
    IN IF matches = <<>> THEN None
       ELSE CASE is_expired(matches[1], t) = "TypeError" -> Raised
              [] is_expired(matches[1], t) = "True"      -> None
              [] is_expired(matches[1], t) = "False"     -> Some(matches[1])

\* VaultAuth.validate after the limiter has admitted the attempt
Authenticate(toks, e, token, t) ==
    IF BypassActive(e, token) THEN Some(BypassRecord(t))
    ELSE Lookup(toks, token, t)

\* VaultAuth.validate
ValidateResult(toks, att, e, token, t) ==
    IF ~Admits(Pruned(att[TokenKey(token)], t)) THEN None
    ELSE Authenticate(toks, e, token, t)

\* f"{role}-{agent}"; a label is the tuple of the pieces of its string
DefaultLabel(role, agent) == <<role, "-", agent>>

\* a revoke that compares the stored hash with the raw token
RevokeKeepRaw(toks, token) ==
    SelectSeq(toks, LAMBDA r : r.token_hash # token)

\* VaultAuth.revoke, line 148: the records that stay
RevokeKeep(toks, token) ==
    SelectSeq(toks, LAMBDA r : r.token_hash # _hash(token))

\* VaultAuth.list_tokens
Listing(toks) ==
    [i \in DOMAIN toks |->
        [k \in DOMAIN toks[i] \ {"token_hash"} |-> toks[i][k]]]

\* ---- the stores behind the request surface --------------------------------
Absent == [exists |-> FALSE]

\* a response without extra headers
NoHeaders == [x \in {} |-> 0]

\* the staging files that requests lock, none of them locked
StagingFiles == {"stats", "pending"}
NoLock == [f \in StagingFiles |-> 0]

\* KeyStore._secret_path: the characters outside [A-Za-z0-9-_.] are dropped
\* and the rest is lower-cased
SecretNames == {"api", "API", "a/pi", "db"}

Safe(name) ==
    CASE name = "api"  -> "api"
      [] name = "API"  -> "api"
      [] name = "a/pi" -> "api"
      [] name = "db"   -> "db"
_secret_path(name) == Safe(name)

SecretFiles == {"api", "db"}

\* KeyStore.store, the payload: AES-GCM of the value with the name as
\* associated data (the nonce is fresh and does not show in what is read back)
SecretPayload(name, value) ==
    [exists |-> TRUE, name |-> name, aad |-> name, plaintext |-> value]

\* a retrieve that does not check the associated data
retrieveAnyName(files, name) ==
    IF ~files[_secret_path(name)].exists THEN None
    ELSE [kind |-> "value", value |-> files[_secret_path(name)].plaintext]

\* KeyStore.retrieve
retrieve(files, name) ==
    IF ~files[_secret_path(name)].exists THEN None
    ELSE IF files[_secret_path(name)].aad = name
         THEN [kind |-> "value", value |-> files[_secret_path(name)].plaintext]
         ELSE None

\* KeyStore.list_secrets: the file names without ".enc"
SecretList(files) == {f \in SecretFiles : files[f].exists}

\* MemoryStore._resolve: the names that resolve inside the store root
MemPaths == {"MEMORY.md", "logs/today.md"}
Escapes(filename) == filename \notin MemPaths

\* MemoryStore._encrypt with the Fernet key of the vault
_encrypt(content) == [exists |-> TRUE, fernet |-> TRUE, body |-> content]

\* MemoryStore._decrypt
_decrypt(raw) == raw.body

\* MemoryStore.read, for a name inside the root; "" when the file is absent
ReadOrEmpty(files, filename) ==
    IF files[filename].exists THEN _decrypt(files[filename]) ELSE <<>>

\* MemoryStore.today_log: every instant of the model lies in one day
today_log == "logs/today.md"

\* the path components of the document names tried; a name that starts with
\* "/" is absolute
Components(filename) ==
    CASE filename = "MEMORY.md"
           -> [abs |-> FALSE, parts |-> <<"MEMORY.md">>]
      [] filename = "logs/today.md"
           -> [abs |-> FALSE, parts |-> <<"logs", "today.md">>]
      [] filename = "logs/../MEMORY.md"
           -> [abs |-> FALSE, parts |-> <<"logs", "..", "MEMORY.md">>]
      [] filename = "../../etc/passwd"
           -> [abs |-> FALSE, parts |-> <<"..", "..", "etc", "passwd">>]
      [] filename = "logs/../../memory2/x"
           -> [abs |-> FALSE, parts |-> <<"logs", "..", "..", "memory2", "x">>]
      [] filename = "/etc/passwd"
           -> [abs |-> TRUE, parts |-> <<"etc", "passwd">>]

\* self.root
Root == <<"vault", "memory">>

\* os.path.join(self.root, filename): an absolute filename replaces the root
join(root, filename) ==
    IF Components(filename).abs THEN Components(filename).parts
    ELSE root \o Components(filename).parts

\* os.path.realpath over a tree of regular files and directories: "." is
\* dropped, ".." removes the component before it and stays at "/"
RECURSIVE Normalise(_, _)
Normalise(parts, acc) ==
    IF parts = <<>> THEN acc
    ELSE IF Head(parts) = "." THEN Normalise(Tail(parts), acc)
    ELSE IF Head(parts) = ".."
         THEN Normalise(Tail(parts),
                        IF acc = <<>> THEN acc ELSE SubSeq(acc, 1, Len(acc) - 1))
    ELSE Normalise(Tail(parts), Append(acc, Head(parts)))

realpath(parts) == Normalise(parts, <<>>)

\* MemoryStore._resolve, line 132: real is the root or lies below it
InsideRoot(real) ==
    \/ real = Root
    \/ /\ Len(real) > Len(Root)
       /\ SubSeq(real, 1, Len(Root)) = Root

PermissionError == [kind |-> "PermissionError"]

\* a _resolve without the prefix check
_resolveUnchecked(filename) ==
    [kind |-> "path", real |-> realpath(join(Root, filename))]

\* MemoryStore._resolve
_resolve(filename) ==
    IF ~InsideRoot(realpath(join(Root, filename))) THEN PermissionError
    ELSE [kind |-> "path", real |-> realpath(join(Root, filename))]

\* the file a canonical path names
PathName(real) ==
    CASE real = <<"vault", "memory", "MEMORY.md">>         -> "MEMORY.md"
      [] real = <<"vault", "memory", "logs", "today.md">> -> "logs/today.md"
      [] real = <<"etc", "passwd">>                       -> "/etc/passwd"
      [] real = <<"vault", "memory2", "x">>               -> "/vault/memory2/x"

OutsidePaths == {"/etc/passwd", "/vault/memory2/x"}

\* filename.startswith("logs/")
StartsWithLogs(filename) ==
    /\ ~Components(filename).abs
    /\ Len(Components(filename).parts) > 1
    /\ Components(filename).parts[1] = "logs"

\* an append that puts the new text ahead of the old
AppendContentFront(existing, content) == <<"\n", content, "\n">> \o existing

\* MemoryStore.append, line 167
AppendContent(existing, content) == existing \o <<"\n", content, "\n">>

\* MemoryStore.write, lines 147-159: the text written over the existing one;
\* a text is the tuple of its pieces
WriteContent(existing, filename, content, mode) ==
    IF mode = "append" THEN existing \o <<"\n", content, "\n">>
    ELSE IF StartsWithLogs(filename)
         THEN existing \o <<"\n---\n*", "ts", "*\n\n", content, "\n">>
         ELSE <<content>>

\* MemoryStore.write, for a name of the store
WriteText(files, filename, content, mode, t) ==
    WriteContent(ReadOrEmpty(files, filename), filename, content, mode)

\* MemoryStore._init_defaults
DefaultMemory == <<"# Agent Memory">>

\* _sanitise_content: the text with its personal patterns redacted
_sanitise_content(content) ==
    IF content = "mail a@b.io" THEN "mail [redacted]" ELSE content

\* str.strip: the blank pieces at both ends of a text are dropped
Blank == {"\n", " "}

RECURSIVE lstrip(_)
lstrip(text) ==
    IF text # <<>> /\ Head(text) \in Blank THEN lstrip(Tail(text)) ELSE text

RECURSIVE rstrip(_)
rstrip(text) ==
    IF text # <<>> /\ text[Len(text)] \in Blank
    THEN rstrip(SubSeq(text, 1, Len(text) - 1))
    ELSE text

strip(text) == rstrip(lstrip(text))

\* a _write_md that puts the imported text in the place of the existing one
_write_mdReplacing(file, content, heading) == strip(content) \o <<"\n">>

\* amps._write_md: the text of the file after the import; a missing file
\* reads as the empty text
_write_md(file, content, heading) ==
    IF strip(file) # <<>>
    THEN strip(file)
           \o <<"\n", "\n", "---\n## Imported from ", heading, "\n\n">>
           \o strip(content) \o <<"\n">>
    ELSE strip(content) \o <<"\n">>

\* the documents amps.py keeps directly under VAULT_ROOT
RootDocs == {"MEMORY.md", "SOUL.md", "task_plan.md"}

\* import_amps, field_map: the memory field written to each document
field_map(filename) ==
    CASE filename = "MEMORY.md"    -> "long_term"
      [] filename = "SOUL.md"      -> "identity"
      [] filename = "task_plan.md" -> "active_plan"

\* f"{source} (AMPS {ver})" for a document of this framework and version
ImportHeading == "agent_zero (AMPS 1.0)"

\* amps.import_amps: the files under VAULT_ROOT after the import; a memory
\* field that is null or "" is the empty text, and the secrets, the
\* subscriptions and every other field of the document are written nowhere
import_amps(files, doc, overwrite) ==
    [md |-> [f \in RootDocs |->
               IF doc.memory[field_map(f)] = <<>> THEN files.md[f]
               ELSE IF overwrite
                    THEN strip(doc.memory[field_map(f)]) \o <<"\n">>
                    ELSE _write_md(files.md[f], doc.memory[field_map(f)],
                                   ImportHeading)],
     stats_imported |-> IF doc.total_items > 0 THEN doc.total_items
                        ELSE files.stats_imported]

\* amps._read_md: the stripped text, None (the empty text) for a file that
\* is missing or blank
_read_md(file) == strip(file)

\* export_vault, lines 58-61: the text exported for a missing document
ExportDefault(filename) ==
    CASE filename = "MEMORY.md"    -> <<"# Agent Memory\n\n(empty)">>
      [] filename = "SOUL.md"      -> <<"# Agent Identity\n\n(not set)">>
      [] filename = "task_plan.md" -> <<>>

\* an export that lists the names of the secret store
export_vaultListing(files, ledger) ==
    [memory |-> [k \in {"long_term", "identity", "active_plan"} |->
                   _read_md(files.md[CHOOSE g \in RootDocs : field_map(g) = k])],
     secrets |-> IF secret_files["api"].exists THEN <<"api">> ELSE <<>>,
     total_items |-> ledger.approved_contributions]

\* amps.export_vault on VAULT_ROOT with the counters ledger as stats_path
export_vault(files, ledger) ==
    [memory |-> [k \in {"long_term", "identity", "active_plan"} |->
                   LET f == CHOOSE g \in RootDocs : field_map(g) = k
                   IN  IF _read_md(files.md[f]) = <<>> THEN ExportDefault(f)
                       ELSE _read_md(files.md[f])],
     secrets |-> <<>>,
     total_items |-> ledger.approved_contributions]

\* VAULT_ROOT before anything was imported
NoRootFiles == [md |-> [f \in RootDocs |-> <<>>], stats_imported |-> 0]

\* a vault with an empty personal store, a knowledge vault that holds
\* nothing but the default documents, an unreachable peer and no network key
NoSources ==
    [personal |-> <<>>,
     kv       |-> [status |-> "ok", hits |-> <<>>, seeded |-> TRUE],
     remote   |-> [status |-> "unreachable", hits |-> <<>>],
     network  |-> [status |-> "no_key", hits |-> <<>>]]

\* lifespan: the stores of a started vault besides the MemoryStore
InitOthers ==
    /\ secret_files = [f \in SecretFiles |-> Absent]
    /\ pending = Absent
    /\ approved = <<>>
    /\ stats = [queries |-> 0, staged |-> 0, approved_contributions |-> 0]
    /\ root_files = NoRootFiles
    /\ next_id = 0
    /\ resp = [status |-> 0, detail |-> "no request yet", headers |-> NoHeaders]
    /\ stored = [n \in SecretNames |-> None]
    /\ runs = 0
    /\ out = [status |-> "none"]
    /\ age_days = 0
    /\ procs = <<>>
    /\ flock = NoLock
    /\ base = stats
    /\ outside = [f \in OutsidePaths |->
                    IF f = "/etc/passwd"
                    THEN [exists |-> TRUE, fernet |-> FALSE,
                          body |-> <<"root:x:0:0">>]
                    ELSE Absent]

\* lifespan: the stores of a vault that has been started
InitVault ==
    /\ mem_files = [f \in MemPaths |->
                      IF f = "MEMORY.md" THEN _encrypt(DefaultMemory)
                      ELSE Absent]
    /\ world = NoSources
    /\ InitOthers

\* ---- initial state -------------------------------------------------------
\* lifespan: the owner token created on the first start of the vault
InitialOwner ==
    [token_hash |-> _hash(1), role |-> "owner", agent |-> "default",
     label |-> <<"initial-owner">>, created |-> 0, expires |-> NullExpiry]

\* VAULT_ENV and VAULT_TOKEN as the operator set them: the bypass token
\* unset, equal to the vault's own owner token, or some other string
Environments ==
    {[VAULT_ENV |-> "production",  VAULT_TOKEN |-> 1],
     [VAULT_ENV |-> "development", VAULT_TOKEN |-> NoToken],
     [VAULT_ENV |-> "development", VAULT_TOKEN |-> 1],
     [VAULT_ENV |-> "development", VAULT_TOKEN |-> NumTokens]}

\* VaultAuth.__init__: the configuration is loaded from disk (here the vault
\* of an earlier start, holding its initial owner token), the limiter is
\* empty, the environment is whatever the operator set
Init ==
    /\ now = 0
    /\ tokens = <<InitialOwner>>
    /\ saved = tokens
    /\ attempts = [k \in Keys |-> <<>>]
    /\ env \in Environments
    /\ issued = {1}
    /\ revoked = {}
    /\ limited = {}
    /\ ret = [op |-> "init"]
    /\ InitVault

\* ---- operations of VaultAuth ---------------------------------------------
Roles == {"owner", "subscriber", "admin"}
\* the role and label of the token-issue requests tried
TokenRequests ==
    {[role |-> "subscriber", label |-> ""],
     [role |-> "owner",      label |-> "ci"],
     [role |-> "admin",      label |-> ""]}

\* VaultAuth.create_token; secrets.token_urlsafe(32) is a value never
\* produced before and not equal to any configured string
create_token(role, agent, label, expires) ==
    /\ Len(tokens) < MaxStored
    /\ \E token \in Tokens \ (issued \cup {env.VAULT_TOKEN}) :
          /\ tokens' = Append(tokens,
                  [token_hash |-> _hash(token), role |-> role, agent |-> agent,
                   label |-> IF label = "" THEN DefaultLabel(role, agent)
                             ELSE <<label>>,
                   created |-> now, expires |-> expires])
          /\ issued' = issued \cup {token}
          /\ ret' = [op |-> "create_token", token |-> token]
    /\ saved' = tokens'
    /\ UNCHANGED <<now, attempts, env, revoked, limited>>
    /\ UNCHANGED serverVars

\* VaultAuth.validate
validate(token) ==
    /\ attempts' = [attempts EXCEPT
                      ![TokenKey(token)] = check(attempts[TokenKey(token)], now)]
    /\ ret' = [op |-> "validate", token |-> token,
               result |-> ValidateResult(tokens, attempts, env, token, now)]
    /\ limited' = IF Admits(Pruned(attempts[TokenKey(token)], now))
                  THEN limited ELSE limited \cup {TokenKey(token)}
    /\ UNCHANGED <<now, tokens, saved, env, issued, revoked>>
    /\ UNCHANGED serverVars

\* VaultAuth.revoke
revoke(token) ==
    LET kept == RevokeKeep(tokens, token)
    IN /\ tokens' = kept
       /\ saved' = IF Len(kept) < Len(tokens) THEN kept ELSE saved
       /\ revoked' = revoked \cup ({token} \cap issued)
       /\ ret' = [op |-> "revoke", token |-> token,
                  removed |-> Len(kept) < Len(tokens)]
       /\ UNCHANGED <<now, attempts, env, issued, limited>>
       /\ UNCHANGED serverVars

\* VaultAuth.list_tokens
list_tokens ==
    /\ ret' = [op |-> "list_tokens", listing |-> Listing(tokens)]
    /\ UNCHANGED <<now, tokens, saved, attempts, env, issued, revoked, limited>>
    /\ UNCHANGED serverVars

\* time.time() and datetime.now() advance
Tick ==
    /\ now < MaxTime
    /\ now' = now + 1
    /\ UNCHANGED <<tokens, saved, attempts, env, issued, revoked, limited,
                   ret>>
    /\ UNCHANGED serverVars

\* ---- the authenticated request surface (vault_server.py) ------------------
\* a require_owner that lets every authenticated token through
require_owner_any(record) == TRUE

\* require_owner, line 115: the role test
require_owner(record) == record.role = "owner"

\* FastAPI's answer to an exception that is no HTTPException
InternalError == [status |-> 500, detail |-> "Internal Server Error",
                  headers |-> NoHeaders]

\* require_auth, line 111
AuthFailure == [status |-> 401, detail |-> "Invalid or expired vault token",
                headers |-> NoHeaders]

\* require_owner, line 116
PermissionDenied ==
    [status |-> 403, detail |-> "Owner token required for this operation",
     headers |-> NoHeaders]

\* a missing item answered as a success
NotFoundAsOk(what) == [status |-> 200, detail |-> "ok", headers |-> NoHeaders]

NotFound(what) == [status |-> 404, detail |-> what, headers |-> NoHeaders]

Ok == [status |-> 200, detail |-> "ok", headers |-> NoHeaders]

\* _check_ip_rate_limit: the only response with a Retry-After header; no
\* route, dependency or middleware of vault_server.py calls it
_check_ip_rate_limit(list, t) ==
    IF ~Admits(Pruned(list, t))
    THEN [status |-> 429,
          detail |-> "Too many authentication attempts. Try again later.",
          headers |-> [h \in {"Retry-After"} |->
                          seconds_until_reset(Pruned(list, t), t)]]
    ELSE Ok

\* require_auth and require_owner: the response of the dependencies, Ok
\* when the handler is to run
Dependencies(token, owner_only) ==
    LET result == ValidateResult(tokens, attempts, env, token, now)
    IN CASE result.kind = "none"  -> AuthFailure
         [] result.kind = "raise" -> InternalError
         [] OTHER -> IF owner_only /\ ~require_owner(result.record)
                     THEN PermissionDenied ELSE Ok

\* the call of auth_mgr.validate made by require_auth
Validated(token) ==
    /\ attempts' = [attempts EXCEPT
                      ![TokenKey(token)] = check(attempts[TokenKey(token)], now)]
    /\ limited' = IF Admits(Pruned(attempts[TokenKey(token)], now))
                  THEN limited ELSE limited \cup {TokenKey(token)}
    /\ UNCHANGED <<now, env, revoked, ret, libVars>>

\* the response as the caller sees it
Answer(route, token, r) ==
    [status |-> r.status, detail |-> r.detail, headers |-> r.headers]

\* a request the dependencies refuse: nothing but the limiter changes
Refused(route, token, owner_only) ==
    /\ Dependencies(token, owner_only).status # 200
    /\ resp' = Answer(route, token, Dependencies(token, owner_only))
    /\ UNCHANGED <<tokens, saved, issued>>
    /\ UNCHANGED vaultVars

Passed(token, owner_only) == Dependencies(token, owner_only).status = 200

\* GET /vault/info
vault_info(token) ==
    /\ Validated(token)
    /\ \/ Refused("vault_info", token, FALSE)
       \/ /\ Passed(token, FALSE)
          /\ resp' = Answer("vault_info", token, Ok)
          /\ UNCHANGED <<tokens, saved, issued>>
          /\ UNCHANGED vaultVars

\* GET /vault/secrets
list_secrets(token) ==
    /\ Validated(token)
    /\ \/ Refused("list_secrets", token, TRUE)
       \/ /\ Passed(token, TRUE)
          /\ resp' = Answer("list_secrets", token, Ok)
          /\ UNCHANGED <<tokens, saved, issued>>
          /\ UNCHANGED vaultVars

\* GET /vault/secrets/{name}
get_secret(token, name) ==
    /\ Validated(token)
    /\ \/ Refused("get_secret", token, TRUE)
       \/ /\ Passed(token, TRUE)
          /\ resp' = Answer("get_secret", token,
                        IF retrieve(secret_files, name) = None
                        THEN NotFound("secret") ELSE Ok)
          /\ UNCHANGED <<tokens, saved, issued>>
          /\ UNCHANGED vaultVars

\* POST /vault/secrets/{name}
set_secret(token, name, value) ==
    /\ Validated(token)
    /\ \/ Refused("set_secret", token, TRUE)
       \/ /\ Passed(token, TRUE)
          /\ secret_files' = [secret_files EXCEPT
                  ![_secret_path(name)] = SecretPayload(name, value)]
          /\ resp' = Answer("set_secret", token, Ok)
          /\ UNCHANGED <<tokens, saved, issued, mem_files, pending, approved,
                         stats, root_files, next_id>>

\* DELETE /vault/secrets/{name}
delete_secret(token, name) ==
    /\ Validated(token)
    /\ \/ Refused("delete_secret", token, TRUE)
       \/ /\ Passed(token, TRUE)
          /\ secret_files' = [secret_files EXCEPT
                                ![_secret_path(name)] = Absent]
          /\ resp' = Answer("delete_secret", token,
                        IF secret_files[_secret_path(name)].exists
                        THEN Ok ELSE NotFound("secret"))
          /\ UNCHANGED <<tokens, saved, issued, mem_files, pending, approved,
                         stats, root_files, next_id>>

\* POST /vault/memory/{filepath}
write_memory(token, filepath, content, mode) ==
    /\ Validated(token)
    /\ \/ Refused("write_memory", token, TRUE)
       \/ /\ Passed(token, TRUE)
          /\ Escapes(filepath)
          /\ resp' = Answer("write_memory", token,
                        [status |-> 403, detail |-> "Path traversal denied",
                         headers |-> NoHeaders])
          /\ UNCHANGED <<tokens, saved, issued>>
          /\ UNCHANGED vaultVars
       \/ /\ Passed(token, TRUE)
          /\ ~Escapes(filepath)
          /\ Len(ReadOrEmpty(mem_files, filepath)) < MaxDoc
          /\ mem_files' = [mem_files EXCEPT ![filepath] =
                  _encrypt(WriteText(mem_files, filepath, content, mode, now))]
          /\ resp' = Answer("write_memory", token, Ok)
          /\ UNCHANGED <<tokens, saved, issued, secret_files, pending,
                         approved, stats, root_files, next_id>>

\* POST /vault/memory/log/today
append_today_log(token, content) ==
    /\ Validated(token)
    /\ \/ Refused("append_today_log", token, TRUE)
       \/ /\ Passed(token, TRUE)
          /\ Len(ReadOrEmpty(mem_files, today_log)) < MaxDoc
          /\ mem_files' = [mem_files EXCEPT ![today_log] =
                  _encrypt(ReadOrEmpty(mem_files, today_log)
                               \o <<"\n", content, "\n">>)]
          /\ resp' = Answer("append_today_log", token, Ok)
          /\ UNCHANGED <<tokens, saved, issued, secret_files, pending,
                         approved, stats, root_files, next_id>>

\* ---- the access gate ------------------------------------------------------
\* _is_grace_active, line 406: the grace period in days
GraceDays == 14
\* query, line 272: the gate is open up to this many queries
MinQueries == 50

\* max(queries, 1)
AtLeastOne(n) == IF n < 1 THEN 1 ELSE n

\* _is_grace_active, first component
_is_grace_active(age) == age < GraceDays

\* a gate that leaves the query being answered out of the ratio
BelowGateUncounted(ledger) ==
    20 * ledger.approved_contributions < AtLeastOne(ledger.queries - 1)

\* query, lines 271-272: approved / max(queries, 1) < 0.05
BelowGate(ledger) ==
    20 * ledger.approved_contributions < AtLeastOne(ledger.queries)

\* a gate that is shut during the grace period as well
ThrottledAnyAge(ledger, age) ==
    /\ BelowGate(ledger)
    /\ ledger.queries > MinQueries

\* query, lines 268-272: the request is answered 429
Throttled(ledger, age) ==
    /\ ~_is_grace_active(age)
    /\ BelowGate(ledger)
    /\ ledger.queries > MinQueries

\* query, lines 273-279
ThrottleExceeded ==
    [status |-> 429, detail |-> "query_limit_reached", headers |-> NoHeaders]

\* vault_stats, lines 445 and 451: round(approved / max(queries, 1), 3) >= 0.1,
\* which is approved / max(queries, 1) >= 0.0995
RatioIsFull(ledger) ==
    2000 * ledger.approved_contributions >= 199 * AtLeastOne(ledger.queries)

\* vault_stats, line 451
access_tier(ledger, age) ==
    IF _is_grace_active(age) THEN "grace"
    ELSE IF RatioIsFull(ledger) THEN "full"
    ELSE "limited"

\* _increment_stat
_increment_stat(ledger, key) == [ledger EXCEPT ![key] = ledger[key] + 1]

\* the lines of pending.jsonl, none when the file does not exist
PendingLines == IF pending.exists THEN pending.lines ELSE <<>>

\* POST /vault/contribute
contribute(token, content) ==
    /\ Validated(token)
    /\ \/ Refused("contribute", token, TRUE)
       \/ /\ Passed(token, TRUE)
          /\ next_id < MaxContributions
          /\ next_id' = next_id + 1
          /\ pending' = [exists |-> TRUE,
                         lines |-> Append(PendingLines,
                             [id |-> next_id + 1,
                              sanitised |-> _sanitise_content(content),
                              staged_at |-> now])]
          /\ stats' = _increment_stat(stats, "staged")
          /\ resp' = Answer("contribute", token, Ok)
          /\ UNCHANGED <<tokens, saved, issued, secret_files, mem_files,
                         approved, root_files>>

\* GET /vault/contribute/pending
pending_contributions(token) ==
    /\ Validated(token)
    /\ \/ Refused("pending_contributions", token, TRUE)
       \/ /\ Passed(token, TRUE)
          /\ resp' = Answer("pending_contributions", token, Ok)
          /\ UNCHANGED <<tokens, saved, issued>>
          /\ UNCHANGED vaultVars

\* a rewrite of the pending ledger that stops at the line it looks for
OthersBefore(contrib_id) ==
    IF \E k \in DOMAIN PendingLines : PendingLines[k].id = contrib_id
    THEN SubSeq(PendingLines, 1,
                (CHOOSE k \in DOMAIN PendingLines :
                    PendingLines[k].id = contrib_id) - 1)
    ELSE PendingLines

\* the pending lines whose id is not contrib_id
Others(contrib_id) == SelectSeq(PendingLines, LAMBDA c : c.id # contrib_id)
\* the last pending line with the id
Found(contrib_id) ==
    LET hits == SelectSeq(PendingLines, LAMBDA c : c.id = contrib_id)
    IN hits[Len(hits)]

\* an approve that answers as the query gate does and approves nothing
approve_contributionGated(token, contrib_id) ==
    /\ Validated(token)
    /\ resp' = Answer("approve_contribution", token,
                      IF Throttled(stats, age_days) THEN ThrottleExceeded
                      ELSE Ok)
    /\ UNCHANGED <<tokens, saved, issued>>
    /\ UNCHANGED vaultVars

\* POST /vault/pending/{contrib_id}/approve
approve_contribution(token, contrib_id) ==
    /\ Validated(token)
    /\ \/ Refused("approve_contribution", token, TRUE)
       \/ /\ Passed(token, TRUE)
          /\ Others(contrib_id) = PendingLines
          /\ resp' = Answer("approve_contribution", token,
                            NotFound("contribution"))
          /\ UNCHANGED <<tokens, saved, issued>>
          /\ UNCHANGED vaultVars
       \/ /\ Passed(token, TRUE)
          /\ Others(contrib_id) # PendingLines
          /\ pending' = [exists |-> TRUE, lines |-> Others(contrib_id)]
          /\ approved' = Append(approved,
                 [id |-> Found(contrib_id).id,
                  sanitised |-> Found(contrib_id).sanitised,
                  staged_at |-> Found(contrib_id).staged_at,
                  approved_at |-> now])
          /\ stats' = _increment_stat(stats, "approved_contributions")
          /\ resp' = Answer("approve_contribution", token, Ok)
          /\ UNCHANGED <<tokens, saved, issued, secret_files, mem_files,
                         root_files, next_id>>

\* DELETE /vault/pending/{contrib_id}
reject_contribution(token, contrib_id) ==
    /\ Validated(token)
    /\ \/ Refused("reject_contribution", token, TRUE)
       \/ /\ Passed(token, TRUE)
          /\ Others(contrib_id) = PendingLines
          /\ resp' = Answer("reject_contribution", token,
                            NotFound("contribution"))
          /\ UNCHANGED <<tokens, saved, issued>>
          /\ UNCHANGED vaultVars
       \/ /\ Passed(token, TRUE)
          /\ Others(contrib_id) # PendingLines
          /\ pending' = [exists |-> TRUE, lines |-> Others(contrib_id)]
          /\ resp' = Answer("reject_contribution", token, Ok)
          /\ UNCHANGED <<tokens, saved, issued, secret_files, mem_files,
                         approved, stats, root_files, next_id>>

\* GET /vault/tokens
route_list_tokens(token) ==
    /\ Validated(token)
    /\ \/ Refused("list_tokens", token, TRUE)
       \/ /\ Passed(token, TRUE)
          /\ resp' = Answer("list_tokens", token, Ok)
          /\ UNCHANGED <<tokens, saved, issued>>
          /\ UNCHANGED vaultVars

\* POST /vault/tokens
route_create_token(token, body) ==
    /\ Validated(token)
    /\ \/ Refused("create_token", token, TRUE)
       \/ /\ Passed(token, TRUE)
          /\ Len(tokens) < MaxStored
          /\ \E new \in Tokens \ (issued \cup {env.VAULT_TOKEN}) :
                /\ tokens' = Append(tokens,
                     [token_hash |-> _hash(new), role |-> body.role,
                      agent |-> "agent",
                      label |-> IF body.label = ""
                                THEN DefaultLabel(body.role, "agent")
                                ELSE <<body.label>>,
                      created |-> now, expires |-> body.expires])
                /\ issued' = issued \cup {new}
          /\ saved' = tokens'
          /\ resp' = Answer("create_token", token, Ok)
          /\ UNCHANGED vaultVars

\* GET /vault/export
vault_export(token) ==
    /\ Validated(token)
    /\ \/ Refused("vault_export", token, TRUE)
       \/ /\ Passed(token, TRUE)
          /\ resp' = Answer("vault_export", token, Ok)
          /\ UNCHANGED <<tokens, saved, issued>>
          /\ UNCHANGED vaultVars

\* POST /vault/import; amps.import_amps writes the documents of VAULT_ROOT
\* and, when the document counts contributions, VAULT_ROOT/stats.json
vault_import(token, doc, overwrite) ==
    /\ Validated(token)
    /\ \/ Refused("vault_import", token, TRUE)
       \/ /\ Passed(token, TRUE)
          /\ \A f \in RootDocs : Len(root_files.md[f]) < MaxDoc
          /\ root_files' = import_amps(root_files, doc, overwrite)
          /\ resp' = Answer("vault_import", token, Ok)
          /\ UNCHANGED <<tokens, saved, issued, secret_files, mem_files,
                         pending, approved, stats, next_id>>

\* ---- the token lifecycle: create_token, validate, revoke, list_tokens ----
Next ==
    \/ \E req \in TokenRequests :
          create_token(req.role, "agent", req.label, NullExpiry)
    \/ \E token \in Tokens : validate(token)
    \/ \E token \in Tokens : revoke(token)
    \/ list_tokens

Spec == Init /\ [][Next]_vars

\* ---- the rate limiter under a running clock -------------------------------
NextLimiter ==
    \/ create_token("subscriber", "agent", "", NullExpiry)
    \/ \E token \in Tokens : validate(token)
    \/ Tick

SpecLimiter == Init /\ [][NextLimiter]_vars

\* ---- expiring tokens under a running clock --------------------------------
NextExpiry ==
    \/ \E expires \in ExpiryValues :
          create_token("subscriber", "agent", "", expires)
    \/ \E token \in Tokens : validate(token)
    \/ Tick

SpecExpiry == Init /\ [][NextExpiry]_vars

\* ---- the owner-only operations of the request surface ---------------------
\* the TokenCreate bodies tried
TokenBodies ==
    {[role |-> "subscriber", label |-> "", expires |-> NullExpiry]}

\* the AMPS documents tried at the request surface
ImportDocs ==
    {[memory |-> [long_term |-> <<"imported">>, identity |-> <<>>,
                  active_plan |-> <<>>],
      secrets |-> <<>>, total_items |-> 1]}

\* a subscriber token issued during an earlier run of the server
LoadedToken == BodiesPerPrefix + 1

LoadedSubscriber ==
    [token_hash |-> _hash(LoadedToken), role |-> "subscriber",
     agent |-> "default", label |-> DefaultLabel("subscriber", "default"),
     created |-> 0, expires |-> NullExpiry]

\* VaultAuth._load at a restart: the token store is what the earlier run
\* saved, the initial owner token alone or with a subscriber token; the
\* operator runs the server in production or in development mode, and has
\* VAULT_TOKEN set to the subscriber token
InitServer ==
    /\ now = 0
    /\ tokens \in {<<InitialOwner>>, <<InitialOwner, LoadedSubscriber>>}
    /\ saved = tokens
    /\ attempts = [k \in Keys |-> <<>>]
    /\ env \in {[VAULT_ENV |-> "production",  VAULT_TOKEN |-> LoadedToken],
                [VAULT_ENV |-> "development", VAULT_TOKEN |-> LoadedToken]}
    /\ issued = {1} \cup {t \in {LoadedToken} : Len(tokens) = 2}
    /\ revoked = {}
    /\ limited = {}
    /\ ret = [op |-> "init"]
    /\ InitVault

NextServer ==
    \/ \E token \in Tokens : vault_info(token)
    \/ \E token \in Tokens : list_secrets(token)
    \/ \E token \in Tokens : get_secret(token, "api")
    \/ \E token \in Tokens : set_secret(token, "api", "s3cret")
    \/ \E token \in Tokens : delete_secret(token, "api")
    \/ \E token \in Tokens, mode \in {"write", "append"} :
          write_memory(token, "MEMORY.md", "text", mode)
    \/ \E token \in Tokens : append_today_log(token, "entry")
    \/ \E token \in Tokens : contribute(token, "mail a@b.io")
    \/ \E token \in Tokens : pending_contributions(token)
    \/ \E token \in Tokens, id \in 1..MaxContributions :
          approve_contribution(token, id)
    \/ \E token \in Tokens, id \in 1..MaxContributions :
          reject_contribution(token, id)
    \/ \E token \in Tokens : route_list_tokens(token)
    \/ \E token \in Tokens, body \in TokenBodies :
          route_create_token(token, body)
    \/ \E token \in Tokens : vault_export(token)
    \/ \E token \in Tokens, doc \in ImportDocs, overwrite \in BOOLEAN :
          vault_import(token, doc, overwrite)

SpecServer == InitServer /\ [][NextServer]_vars

\* ---- the KeyStore, called directly ----------------------------------------
SecretValues == {"v1", "v2"}

\* KeyStore.store
KeyStore_store(name, value) ==
    /\ secret_files' = [secret_files EXCEPT
                          ![_secret_path(name)] = SecretPayload(name, value)]
    /\ stored' = [stored EXCEPT ![name] = [kind |-> "value", value |-> value]]
    /\ ret' = [op |-> "store", name |-> name]
    /\ UNCHANGED <<now, tokens, saved, attempts, env, issued, revoked, limited,
                   mem_files, pending, approved, stats, root_files, next_id,
                   resp, outside, runs, world, gateVars, out>>

\* KeyStore.retrieve
KeyStore_retrieve(name) ==
    /\ ret' = [op |-> "retrieve", name |-> name,
               result |-> retrieve(secret_files, name)]
    /\ UNCHANGED <<now, tokens, saved, attempts, env, issued, revoked, limited,
                   serverVars>>

\* KeyStore.delete
KeyStore_delete(name) ==
    /\ secret_files' = [secret_files EXCEPT ![_secret_path(name)] = Absent]
    /\ stored' = [stored EXCEPT ![name] = None]
    /\ ret' = [op |-> "delete", name |-> name,
               result |-> secret_files[_secret_path(name)].exists]
    /\ UNCHANGED <<now, tokens, saved, attempts, env, issued, revoked, limited,
                   mem_files, pending, approved, stats, root_files, next_id,
                   resp, outside, runs, world, gateVars, out>>

\* a started vault in production mode, its stores called directly
InitStores ==
    /\ Init
    /\ env = [VAULT_ENV |-> "production", VAULT_TOKEN |-> 1]

NextKeyStore ==
    \/ \E name \in SecretNames, value \in SecretValues :
          KeyStore_store(name, value)
    \/ \E name \in SecretNames : KeyStore_retrieve(name)
    \/ \E name \in SecretNames : KeyStore_delete(name)

SpecKeyStore == InitStores /\ [][NextKeyStore]_vars

\* ---- the MemoryStore, called directly -------------------------------------
DocNames == {"MEMORY.md", "logs/today.md", "logs/../MEMORY.md",
             "../../etc/passwd", "logs/../../memory2/x", "/etc/passwd"}
DocContents == {"a", "b"}

authVars == <<now, tokens, saved, attempts, env, issued, revoked, limited>>

\* the file at a canonical path, inside the root or outside of it
FileAt(real) ==
    IF InsideRoot(real) THEN mem_files[PathName(real)]
    ELSE outside[PathName(real)]

\* MemoryStore.read past _resolve: None for a missing file
ReadAt(real) ==
    IF FileAt(real).exists THEN [kind |-> "text", text |-> _decrypt(FileAt(real))]
    ELSE None

\* self.read(filename) or ""
ExistingAt(real) == IF FileAt(real).exists THEN _decrypt(FileAt(real)) ELSE <<>>

\* open(path, "wb") and f.write(self._encrypt(text))
Overwrite(real, text) ==
    IF InsideRoot(real)
    THEN /\ mem_files' = [mem_files EXCEPT ![PathName(real)] = _encrypt(text)]
         /\ UNCHANGED outside
    ELSE /\ outside' = [outside EXCEPT ![PathName(real)] = _encrypt(text)]
         /\ UNCHANGED mem_files

\* MemoryStore.read
MemoryStore_read(filename) ==
    /\ ret' = [op |-> "read", filename |-> filename,
               resolved |-> _resolve(filename),
               result |-> IF _resolve(filename) = PermissionError
                          THEN PermissionError
                          ELSE ReadAt(_resolve(filename).real)]
    /\ UNCHANGED <<authVars, serverVars>>

\* MemoryStore.write
MemoryStore_write(filename, content, mode) ==
    /\ IF _resolve(filename) = PermissionError
       THEN /\ ret' = [op |-> "write", filename |-> filename,
                       resolved |-> PermissionError,
                       result |-> PermissionError]
            /\ UNCHANGED <<mem_files, outside>>
       ELSE /\ Len(ExistingAt(_resolve(filename).real)) < MaxText
            /\ Overwrite(_resolve(filename).real,
                         WriteContent(ExistingAt(_resolve(filename).real),
                                      filename, content, mode))
            /\ ret' = [op |-> "write", filename |-> filename,
                       resolved |-> _resolve(filename),
                       content |-> content, mode |-> mode,
                       before |-> ExistingAt(_resolve(filename).real),
                       result |-> [kind |-> "written"]]
    /\ UNCHANGED <<authVars, secret_files, pending, approved, stats,
                   root_files, next_id, resp, stored, runs, world, gateVars,
                   out>>

\* MemoryStore.append
MemoryStore_append(filename, content) ==
    /\ IF _resolve(filename) = PermissionError
       THEN /\ ret' = [op |-> "append", filename |-> filename,
                       resolved |-> PermissionError,
                       result |-> PermissionError]
            /\ UNCHANGED <<mem_files, outside>>
       ELSE /\ Len(ExistingAt(_resolve(filename).real)) < MaxText
            /\ Overwrite(_resolve(filename).real,
                         AppendContent(ExistingAt(_resolve(filename).real),
                                       content))
            /\ ret' = [op |-> "append", filename |-> filename,
                       resolved |-> _resolve(filename),
                       content |-> content, mode |-> "append",
                       before |-> ExistingAt(_resolve(filename).real),
                       result |-> [kind |-> "written"]]
    /\ UNCHANGED <<authVars, secret_files, pending, approved, stats,
                   root_files, next_id, resp, stored, runs, world, gateVars,
                   out>>

NextMemory ==
    \/ \E filename \in DocNames : MemoryStore_read(filename)
    \/ \E filename \in DocNames, content \in DocContents,
          mode \in {"write", "append"} :
          MemoryStore_write(filename, content, mode)
    \/ \E filename \in DocNames, content \in DocContents :
          MemoryStore_append(filename, content)

SpecMemory == InitStores /\ [][NextMemory]_vars

\* ---- the plaintext-to-encrypted migration of the MemoryStore ---------------
\* _FERNET_PREFIX and raw.startswith(_FERNET_PREFIX): a Fernet token starts
\* with it, and so may a plaintext
FernetPrefix == "gAAAAA"
StartsWithPrefix(raw) ==
    /\ raw.exists
    /\ \/ raw.fernet
       \/ raw.body # <<>> /\ raw.body[1] = FernetPrefix

\* line 99 with every file taken for plaintext: nothing but an empty file is
\* passed over
SkippedOnlyEmpty(raw) ==
    \/ ~raw.exists
    \/ ~raw.fernet /\ raw.body = <<>>

\* line 99: the file is passed over (or is not there)
Skipped(raw) ==
    \/ ~raw.exists
    \/ ~raw.fernet /\ raw.body = <<>>
    \/ StartsWithPrefix(raw)

\* self._fernet.encrypt(raw), line 102: a token over the bytes of the file;
\* every encryption draws a fresh IV, here the number of the pass; inner tells
\* whether the bytes encrypted were a token already
FernetEncrypt(raw, iv) ==
    [exists |-> TRUE, fernet |-> TRUE, body |-> raw.body,
     inner |-> raw.fernet, iv |-> iv]

\* a file abandoned in plaintext by a store that ran without encryption
Plaintext(text) == [exists |-> TRUE, fernet |-> FALSE, body |-> text]

\* MemoryStore._migrate_plaintext_files: one pass over the files of the root
_migrate_plaintext_files ==
    /\ runs < MaxRuns
    /\ mem_files' = [f \in MemPaths |->
                       IF Skipped(mem_files[f]) THEN mem_files[f]
                       ELSE FernetEncrypt(mem_files[f], runs + 1)]
    /\ runs' = runs + 1
    /\ ret' = [op |-> "migrate", run |-> runs + 1]
    /\ UNCHANGED <<authVars, secret_files, pending, approved, stats,
                   root_files, next_id, resp, stored, outside, world, gateVars,
                   out>>

\* the files a store finds in its root at construction, after _init_defaults:
\* MEMORY.md is there, the log may be; each is a token of this store, a
\* plaintext, an empty file or a plaintext that starts like a token
LegacyFiles ==
    {_encrypt(DefaultMemory), Plaintext(<<"note">>), Plaintext(<<>>),
     Plaintext(<<FernetPrefix, "note">>)}

InitMigration ==
    /\ now = 0
    /\ tokens = <<InitialOwner>>
    /\ saved = tokens
    /\ attempts = [k \in Keys |-> <<>>]
    /\ env = [VAULT_ENV |-> "production", VAULT_TOKEN |-> 1]
    /\ issued = {1}
    /\ revoked = {}
    /\ limited = {}
    /\ ret = [op |-> "init"]
    /\ InitOthers
    /\ world = NoSources
    /\ mem_files \in [MemPaths -> LegacyFiles \cup {Absent}]
    /\ mem_files["MEMORY.md"].exists

\* a plaintext that starts with the prefix: _decrypt hands it to Fernet, which
\* raises InvalidToken, so the store cannot read or append to it
Undecryptable(raw) == raw.exists /\ ~raw.fernet /\ StartsWithPrefix(raw)

\* cryptography.fernet.InvalidToken, raised by self._fernet.decrypt(raw)
InvalidToken == [kind |-> "InvalidToken"]

\* MemoryStore.read of a file of the root by a store with encryption: None
\* for a missing file, else _decrypt(raw), which hands every raw that starts
\* with the prefix to Fernet
ReadStored(raw) ==
    IF ~raw.exists THEN None
    ELSE IF Undecryptable(raw) THEN InvalidToken
    ELSE [kind |-> "text", text |-> _decrypt(raw)]

NextMigration ==
    \/ _migrate_plaintext_files
    \/ \E filename \in MemPaths, content \in DocContents :
          /\ ~Undecryptable(mem_files[filename])
          /\ MemoryStore_append(filename, content)

SpecMigration == InitMigration /\ [][NextMigration]_vars

\* ---- MemoryStore.search ------------------------------------------------------
\* For the search a word is the tuple of its characters, a line the tuple of
\* its words (what lies between its blanks), a text the tuple of its lines
\* and a query the tuple of the pieces query.split() yields.

\* str.lower, on a character and on a word
LowerChar(c) ==
    CASE c = "A" -> "a" [] c = "B" -> "b" [] c = "C" -> "c" [] OTHER -> c

lower(word) == [i \in DOMAIN word |-> LowerChar(word[i])]

\* len(t) > 2, line 217
ShortToken == 2

LongToken(t) == Len(t) > ShortToken

\* line 217: the lowered pieces of the query that are longer than two
SearchTokens(query) ==
    SelectSeq([k \in DOMAIN query |-> lower(query[k])], LongToken)

\* t in s, for t without blanks: t is a run of characters of one word
Occurs(t, word) ==
    \E i \in 1..(Len(word) - Len(t) + 1) : SubSeq(word, i, i + Len(t) - 1) = t

\* t in line.lower()
InLine(t, line) == \E k \in DOMAIN line : Occurs(t, lower(line[k]))

\* t in content_lower
InContent(t, lines) == \E n \in DOMAIN lines : InLine(t, lines[n])

\* line 225 with any in the place of all
QualifiesAny(lines, toks) ==
    \E k \in DOMAIN toks : InContent(toks[k], lines)

\* line 225: the file holds every token
Qualifies(lines, toks) ==
    \A k \in DOMAIN toks : InContent(toks[k], lines)

\* lines 228-232: the numbered lines, from line n on, that are not blank
\* and hold a token
RECURSIVE MatchesFrom(_, _, _)
MatchesFrom(lines, n, toks) ==
    IF n > Len(lines) THEN <<>>
    ELSE (IF /\ lines[n] # <<>>
             /\ \E k \in DOMAIN toks : InLine(toks[k], lines[n])
          THEN <<[n |-> n, line |-> lines[n]]>>
          ELSE <<>>) \o MatchesFrom(lines, n + 1, toks)

\* lines[:5], line 236
MatchCap == 5

\* seq[:n]
UpTo(seq, n) == SubSeq(seq, 1, IF Len(seq) < n THEN Len(seq) ELSE n)

\* MemoryStore.search: one entry for each listed file that qualifies
search(files, query) ==
    IF SearchTokens(query) = <<>> THEN {}
    ELSE {[file |-> f,
           matches |-> UpTo(MatchesFrom(_decrypt(files[f]), 1,
                                        SearchTokens(query)),
                            MatchCap)] :
            f \in {g \in MemPaths :
                     /\ files[g].exists
                     /\ _decrypt(files[g]) # <<>>
                     /\ Qualifies(_decrypt(files[g]), SearchTokens(query))
                     /\ MatchesFrom(_decrypt(files[g]), 1,
                                    SearchTokens(query)) # <<>>}}

\* the words, texts and queries tried
Wab == <<"a", "b">>
Wabc == <<"a", "b", "c">>
WABC == <<"A", "B", "C">>
Wbcd == <<"b", "c", "d">>
WxAbcx == <<"x", "A", "b", "c", "x">>
Wdd == <<"d", "d">>
Wxyz == <<"x", "y", "z">>

SearchTexts ==
    {<<>>,
     << <<Wabc>>, <<>>, <<Wdd, WxAbcx>>, <<WABC>>, <<Wdd>>, <<Wabc, Wbcd>>,
        <<Wabc>>, <<WABC>>, <<Wabc>> >>,
     << <<Wabc>>, <<Wbcd, Wab>>, <<Wdd>> >>,
     << <<Wab>>, <<Wbcd>> >>}

Queries ==
    {<<>>, <<Wab>>, <<Wabc>>, <<WABC>>, <<Wabc, Wbcd>>, <<Wab, Wbcd>>,
     <<Wbcd, WABC>>, <<Wab, Wdd>>, <<Wabc, Wxyz>>}

\* MemoryStore.search
MemoryStore_search(query) ==
    /\ ret' = [op |-> "search", query |-> query,
               result |-> search(mem_files, query)]
    /\ UNCHANGED <<authVars, serverVars>>

\* a vault whose memory store holds the texts tried
InitSearch ==
    /\ now = 0
    /\ tokens = <<InitialOwner>>
    /\ saved = tokens
    /\ attempts = [k \in Keys |-> <<>>]
    /\ env = [VAULT_ENV |-> "production", VAULT_TOKEN |-> 1]
    /\ issued = {1}
    /\ revoked = {}
    /\ limited = {}
    /\ ret = [op |-> "init"]
    /\ InitOthers
    /\ world = NoSources
    /\ \E t \in SearchTexts,
          u \in {_encrypt(v) : v \in SearchTexts} \cup {Absent} :
          mem_files = [f \in MemPaths |->
                         IF f = "MEMORY.md" THEN _encrypt(t) ELSE u]

NextSearch == \E query \in Queries : MemoryStore_search(query)

SpecSearch == InitSearch /\ [][NextSearch]_vars

\* ---- portability: export_vault and import_amps on VAULT_ROOT --------------
\* the AMPS documents imported: one that carries secrets and a contribution
\* count, one whose long_term is padded with blanks
PortableDocs ==
    {[memory |-> [long_term |-> <<"imported">>, identity |-> <<"persona">>,
                  active_plan |-> <<>>],
      secrets |-> <<"api=leak">>, total_items |-> 1],
     [memory |-> [long_term |-> <<" ", "padded", "\n">>, identity |-> <<>>,
                  active_plan |-> <<"plan">>],
      secrets |-> <<>>, total_items |-> 0]}

\* vault_export past require_owner:
\* export_vault(VAULT_ROOT, _stats_path(), vault_id)
amps_export ==
    /\ ret' = [op |-> "export", doc |-> export_vault(root_files, stats)]
    /\ UNCHANGED <<authVars, serverVars>>

\* vault_import past require_owner: import_amps(amps_doc, VAULT_ROOT, overwrite)
amps_import(doc, overwrite) ==
    /\ \A f \in RootDocs : Len(root_files.md[f]) < MaxDoc
    /\ root_files' = import_amps(root_files, doc, overwrite)
    /\ ret' = [op |-> "import", doc |-> doc, overwrite |-> overwrite]
    /\ UNCHANGED <<authVars, secret_files, mem_files, pending, approved, stats,
                   next_id, resp, libVars>>

\* a document of VAULT_ROOT as an earlier import left it
KeptDoc == <<"kept", "\n">>

\* a started vault whose VAULT_ROOT holds documents of earlier imports
InitPortable ==
    /\ now = 0
    /\ tokens = <<InitialOwner>>
    /\ saved = tokens
    /\ attempts = [k \in Keys |-> <<>>]
    /\ env = [VAULT_ENV |-> "production", VAULT_TOKEN |-> 1]
    /\ issued = {1}
    /\ revoked = {}
    /\ limited = {}
    /\ ret = [op |-> "init"]
    /\ secret_files = [f \in SecretFiles |-> Absent]
    /\ mem_files = [f \in MemPaths |->
                      IF f = "MEMORY.md" THEN _encrypt(DefaultMemory)
                      ELSE Absent]
    /\ pending = Absent
    /\ approved = <<>>
    /\ stats = [queries |-> 0, staged |-> 0, approved_contributions |-> 0]
    /\ \E md \in [RootDocs -> {<<>>, KeptDoc}] :
          root_files = [md |-> md, stats_imported |-> 0]
    /\ next_id = 0
    /\ resp = [status |-> 0, detail |-> "no request yet", headers |-> NoHeaders]
    /\ stored = [n \in SecretNames |-> None]
    /\ outside = [f \in OutsidePaths |-> Absent]
    /\ runs = 0
    /\ world = NoSources
    /\ out = [status |-> "none"]
    /\ age_days = 0
    /\ procs = <<>>
    /\ flock = NoLock
    /\ base = stats

NextPortable ==
    \/ amps_export
    \/ \E doc \in PortableDocs, overwrite \in BOOLEAN :
          amps_import(doc, overwrite)
    \/ KeyStore_store("api", "v1")
    \/ KeyStore_delete("api")
    \/ \E content \in DocContents :
          MemoryStore_write("MEMORY.md", content, "write")
    \/ MemoryStore_read("MEMORY.md")

SpecPortable == InitPortable /\ [][NextPortable]_vars

\* ---- the QueryEngine --------------------------------------------------------
\* primary[:20] and also_found[:10], lines 249-250
ResultsCap == 20
AlsoFoundCap == 10

\* a content is a text on a topic in one of its spellings: plain, or padded
\* with blanks and in capitals; "number" is a JSON value that is no string
Contents ==
    {[topic |-> 1, form |-> "plain"], [topic |-> 1, form |-> "shout"],
     [topic |-> 2, form |-> "plain"]}

\* timestamps are ISO strings of one format and zone, which compare as the
\* instants they name; the instants are numbered
Stamps == 1..MaxStamp

HitValues == [content : Contents, timestamp : Stamps]

\* the hit lists of at most n hits
SmallLists(n) == UNION {[1..k -> HitValues] : k \in 0..n}

\* a peer that answers with one more distinct text than results can hold
BulkDistinct ==
    [i \in 1..(ResultsCap + 1) |->
        [content |-> [topic |-> 100 + i, form |-> "plain"], timestamp |-> 1]]

\* a peer that answers with one text so often that the conflicts outnumber
\* what also_found can hold
BulkSame ==
    [i \in 1..(AlsoFoundCap + 2) |->
        [content |-> [topic |-> 1, form |-> "plain"], timestamp |-> 1]]

\* a peer whose answer is JSON with a number where the content should be
BadContent ==
    <<[content |-> [topic |-> 0, form |-> "number"], timestamp |-> 1]>>

\* the states of the sources: the lines of the personal store that match, a
\* knowledge vault directory that can be opened or not, a configured peer
\* (unreachable, answering no JSON, or answering), the network (no API key,
\* failing, or answering)
Worlds ==
    [personal : SmallLists(MaxHits),
     kv       : {[status |-> "ok", hits |-> l, seeded |-> b] :
                    l \in SmallLists(1), b \in BOOLEAN}
                \cup {[status |-> "unreadable", hits |-> <<>>,
                       seeded |-> TRUE]},
     remote   : {[status |-> st, hits |-> <<>>] :
                    st \in {"unreachable", "not_json"}}
                \cup {[status |-> "ok", hits |-> l] :
                        l \in {<<>>,
                               <<[content |-> [topic |-> 1, form |-> "shout"],
                                  timestamp |-> MaxStamp]>>,
                               BulkDistinct, BulkSame, BadContent}},
     network  : {[status |-> st, hits |-> <<>>] : st \in {"no_key", "error"}}
                \cup {[status |-> "ok",
                       hits |-> <<[content |-> [topic |-> 1, form |-> "plain"],
                                   timestamp |-> MaxStamp]>>]}]

\* _search_memory_store: the hits with their source
Tagged(hits, source, source_type) ==
    [i \in DOMAIN hits |->
        [content |-> hits[i].content, timestamp |-> hits[i].timestamp,
         source |-> source, source_type |-> source_type]]

\* MemoryStore(memory_root=vault_path), line 87: the constructor makes the
\* logs directory and writes each default document the directory lacks
Seeded(kv) == [kv EXCEPT !.seeded = TRUE]

\* _search_knowledge_vault: the search of the store raises on a file that
\* cannot be read
_search_knowledge_vault(kv) ==
    IF kv.status = "unreadable" THEN [kind |-> "raise"]
    ELSE [kind |-> "hits", hits |-> Tagged(kv.hits, "kv", "knowledge_vault")]

\* _search_remote_vault: any exception of the request or of the JSON parsing
\* gives no hits; the items of an answer are taken as they are
_search_remote_vault(remote) ==
    IF remote.status # "ok" THEN <<>>
    ELSE Tagged(remote.hits, "peer", "remote_vault")

\* _search_inflectiv
_search_inflectiv(network) ==
    IF network.status # "ok" THEN <<>>
    ELSE Tagged(network.hits, "inflectiv_vinn", "network")

\* item["content"].strip().lower(): the plain spelling of the text
Normalised(content) == [content EXCEPT !.form = "plain"]

\* hashlib.sha256(...).hexdigest(): one digest per normalised text
Fingerprint(content) == Normalised(content)

\* _ts_sort_key
_ts_sort_key(item) == item.timestamp

\* a lookup that never finds the key
PlaceOfNever(seen, key) == 0

\* the place of the key in seen, 0 when it is not there
PlaceOf(seen, key) ==
    IF \E p \in DOMAIN seen : seen[p].key = key
    THEN CHOOSE p \in DOMAIN seen : seen[p].key = key
    ELSE 0

\* which of two hits with one fingerprint holds the primary slot: the item at
\* hand takes it from the existing one
\* line 48 with the personal vault given priority over recency
TakesOverPersonal(item, existing) ==
    IF item.source_type = existing.source_type
    THEN _ts_sort_key(item) > _ts_sort_key(existing)
    ELSE item.source_type = "personal_vault"

\* line 48
TakesOver(item, existing) == _ts_sort_key(item) > _ts_sort_key(existing)

\* a surfacing of the loser that forgets it
SurfaceDropped(conflicts, i) == conflicts

\* conflicts.append, lines 49 and 52
Surface(conflicts, i) == Append(conflicts, i)

\* _deduplicate, the loop of lines 40-52 from item i on; seen keeps its keys in
\* the order of their first insertion; hits are named by their place in results
RECURSIVE DedupFrom(_, _, _, _)
DedupFrom(results, i, seen, conflicts) ==
    IF i > Len(results) THEN [seen |-> seen, conflicts |-> conflicts]
    ELSE LET key == Fingerprint(results[i].content)
             p   == PlaceOf(seen, key)
         IN IF p = 0
            THEN DedupFrom(results, i + 1,
                           Append(seen, [key |-> key, item |-> i]), conflicts)
            ELSE IF TakesOver(results[i], results[seen[p].item])
                 THEN DedupFrom(results, i + 1,
                                [seen EXCEPT ![p].item = i],
                                Surface(conflicts, seen[p].item))
                 ELSE DedupFrom(results, i + 1, seen, Surface(conflicts, i))

\* sorted(..., key=_ts_sort_key, reverse=True): stable, greatest stamp first
RECURSIVE SortedFrom(_, _, _)
SortedFrom(results, items, stamp) ==
    IF stamp < 0 THEN <<>>
    ELSE SelectSeq(items, LAMBDA i : _ts_sort_key(results[i]) = stamp)
         \o SortedFrom(results, items, stamp - 1)

\* _deduplicate: (primary, also_found) as places in results
_deduplicate(results) ==
    LET d == DedupFrom(results, 1, <<>>, <<>>)
    IN [primary |-> SortedFrom(results,
                               [p \in DOMAIN d.seen |-> d.seen[p].item],
                               MaxStamp + 1),
        conflicts |-> d.conflicts]

\* list[:n]
Take(list, n) == SubSeq(list, 1, IF Len(list) < n THEN Len(list) ELSE n)

\* QueryEngine.query, lines 198-242: the hits pooled from the sources in order
Pooled(w, include_network) ==
    Tagged(w.personal, "personal", "personal_vault")
    \o _search_knowledge_vault(w.kv).hits
    \o _search_remote_vault(w.remote)
    \o (IF include_network THEN _search_inflectiv(w.network) ELSE <<>>)

\* sources_checked
SourcesChecked(w, include_network) ==
    <<[name |-> "personal", hits |-> Len(w.personal)],
      [name |-> "kv", hits |-> Len(_search_knowledge_vault(w.kv).hits)],
      [name |-> "peer", hits |-> Len(_search_remote_vault(w.remote))]>>
    \o (IF include_network
        THEN <<[name |-> "inflectiv_vinn",
                hits |-> Len(_search_inflectiv(w.network))]>>
        ELSE <<>>)

\* every content of the pool is a string
AllStrings(results) ==
    \A i \in DOMAIN results : results[i].content.form # "number"

\* QueryEngine.query: what the call returns, or that it raised
QueryResult(w, include_network) ==
    IF _search_knowledge_vault(w.kv).kind = "raise"
    THEN [status |-> "raised", error |-> "MemoryStore", 
          include_network |-> include_network]
    ELSE IF ~AllStrings(Pooled(w, include_network))
    THEN [status |-> "raised", error |-> "AttributeError",
          include_network |-> include_network]
    ELSE [status |-> "ok",
          include_network |-> include_network,
          all_results |-> Pooled(w, include_network),
          results |-> Take(_deduplicate(Pooled(w, include_network)).primary,
                           ResultsCap),
          also_found |->
              Take(_deduplicate(Pooled(w, include_network)).conflicts,
                   AlsoFoundCap),
          total_hits |-> Len(Pooled(w, include_network)),
          sources_checked |-> SourcesChecked(w, include_network)]

\* QueryEngine.query
query(include_network) ==
    /\ out' = QueryResult(world, include_network)
    /\ world' = [world EXCEPT !.kv = Seeded(world.kv)]
    /\ UNCHANGED <<authVars, ret, secret_files, mem_files, pending, approved,
                   stats, root_files, next_id, resp, stored, outside, runs,
                   gateVars>>

InitQuery ==
    /\ now = 0
    /\ tokens = <<InitialOwner>>
    /\ saved = tokens
    /\ attempts = [k \in Keys |-> <<>>]
    /\ env = [VAULT_ENV |-> "production", VAULT_TOKEN |-> 1]
    /\ issued = {1}
    /\ revoked = {}
    /\ limited = {}
    /\ ret = [op |-> "init"]
    /\ mem_files = [f \in MemPaths |->
                      IF f = "MEMORY.md" THEN _encrypt(DefaultMemory)
                      ELSE Absent]
    /\ InitOthers
    /\ world \in Worlds

NextQuery == \E include_network \in BOOLEAN : query(include_network)

SpecQuery == InitQuery /\ [][NextQuery]_vars

\* ---- the access gate and the contribution ledger ---------------------------
\* POST /vault/query: the query is counted, then gated, then served
route_query(token, include_network) ==
    /\ Validated(token)
    /\ \/ Refused("query", token, FALSE)
       \/ /\ Passed(token, FALSE)
          /\ stats' = _increment_stat(stats, "queries")
          /\ resp' = Answer("query", token,
                IF Throttled(stats', age_days) THEN ThrottleExceeded
                ELSE IF QueryResult(world, include_network).status = "ok"
                     THEN Ok ELSE InternalError)
          /\ UNCHANGED <<tokens, saved, issued, secret_files, mem_files,
                         pending, approved, root_files, next_id>>

\* GET /vault/stats; detail stands for the access_tier field of the body
vault_stats(token) ==
    /\ Validated(token)
    /\ \/ Refused("vault_stats", token, FALSE)
       \/ /\ Passed(token, FALSE)
          /\ resp' = Answer("vault_stats", token,
                [status |-> 200, detail |-> access_tier(stats, age_days),
                 headers |-> NoHeaders])
          /\ UNCHANGED <<tokens, saved, issued>>
          /\ UNCHANGED vaultVars

\* a day goes by
DayPasses ==
    /\ age_days < MaxAge
    /\ age_days' = age_days + 1
    /\ UNCHANGED <<authVars, ret, vaultVars, resp, stored, outside, runs,
                   world, out, procs, flock, base>>

\* the staging area an earlier run of the server left: n approved
\* contributions, and one pending contribution or none; the ids of an earlier
\* run are not those this run hands out
LoadedApproved(n) ==
    [i \in 1..n |-> [id |-> 0 - i, sanitised |-> "earlier",
                     staged_at |-> 0, approved_at |-> 0]]

LoadedPending == [id |-> 0, sanitised |-> "earlier", staged_at |-> 0]

\* the counters (queries, approved_contributions) of the earlier run
LoadedCounters ==
    {<<0, 0>>, <<MinQueries - 1, 0>>, <<59, 1>>, <<59, 2>>, <<59, 4>>,
     <<59, 5>>, <<59, 10>>, <<200, 20>>}

\* the callers: the owner and a subscriber
LedgerCallers == {1, LoadedToken}

\* a restart of the server on the vault of an earlier run
InitLedger ==
    /\ now = 0
    /\ tokens = <<InitialOwner, LoadedSubscriber>>
    /\ saved = tokens
    /\ attempts = [k \in Keys |-> <<>>]
    /\ env = [VAULT_ENV |-> "production", VAULT_TOKEN |-> NoToken]
    /\ issued = {1, LoadedToken}
    /\ revoked = {}
    /\ limited = {}
    /\ ret = [op |-> "init"]
    /\ secret_files = [f \in SecretFiles |-> Absent]
    /\ mem_files = [f \in MemPaths |->
                      IF f = "MEMORY.md" THEN _encrypt(DefaultMemory)
                      ELSE Absent]
    /\ \E c \in LoadedCounters, waiting \in BOOLEAN :
          /\ approved = LoadedApproved(c[2])
          /\ pending = IF waiting
                       THEN [exists |-> TRUE, lines |-> <<LoadedPending>>]
                       ELSE IF c[2] > 0 THEN [exists |-> TRUE, lines |-> <<>>]
                       ELSE Absent
          /\ stats = [queries |-> c[1],
                      staged |-> c[2] + (IF waiting THEN 1 ELSE 0),
                      approved_contributions |-> c[2]]
    /\ root_files = NoRootFiles
    /\ next_id = 0
    /\ resp = [status |-> 0, detail |-> "no request yet", headers |-> NoHeaders]
    /\ stored = [n \in SecretNames |-> None]
    /\ outside = [f \in OutsidePaths |-> Absent]
    /\ runs = 0
    /\ world = NoSources
    /\ out = [status |-> "none"]
    /\ age_days \in {GraceDays - 1, GraceDays}
    /\ procs = <<>>
    /\ flock = NoLock
    /\ base = stats

\* the contribution ids a request may name
ContributionIds == 0..MaxContributions

NextLedger ==
    \/ \E token \in LedgerCallers : route_query(token, FALSE)
    \/ \E token \in LedgerCallers : vault_stats(token)
    \/ \E token \in LedgerCallers : contribute(token, "mail a@b.io")
    \/ \E id \in ContributionIds : approve_contribution(1, id)
    \/ \E id \in ContributionIds : reject_contribution(1, id)
    \/ vault_export(1)
    \/ \E doc \in ImportDocs : vault_import(1, doc, FALSE)
    \/ DayPasses

SpecLedger == InitLedger /\ [][NextLedger]_vars

\* ---- the gate over many queries: the handlers past their dependencies -----
\* the answer of a query that was served
QueryServed == [status |-> 200, detail |-> "results", headers |-> NoHeaders]

\* query past require_auth
query_handler ==
    /\ stats.queries < base.queries + MaxQueries
    /\ stats' = _increment_stat(stats, "queries")
    /\ resp' = IF Throttled(stats', age_days) THEN ThrottleExceeded
               ELSE QueryServed
    /\ UNCHANGED <<authVars, ret, secret_files, mem_files, pending, approved,
                   root_files, next_id, libVars>>

\* contribute past require_owner
contribute_handler(content) ==
    /\ next_id < MaxContributions
    /\ next_id' = next_id + 1
    /\ pending' = [exists |-> TRUE,
                   lines |-> Append(PendingLines,
                       [id |-> next_id + 1,
                        sanitised |-> _sanitise_content(content),
                        staged_at |-> now])]
    /\ stats' = _increment_stat(stats, "staged")
    /\ resp' = Ok
    /\ UNCHANGED <<authVars, ret, secret_files, mem_files, approved,
                   root_files, libVars>>

\* approve_contribution past require_owner
approve_handler(contrib_id) ==
    /\ IF Others(contrib_id) = PendingLines
       THEN /\ resp' = NotFound("contribution")
            /\ UNCHANGED <<pending, approved, stats>>
       ELSE /\ pending' = [exists |-> TRUE, lines |-> Others(contrib_id)]
            /\ approved' = Append(approved,
                   [id |-> Found(contrib_id).id,
                    sanitised |-> Found(contrib_id).sanitised,
                    staged_at |-> Found(contrib_id).staged_at,
                    approved_at |-> now])
            /\ stats' = _increment_stat(stats, "approved_contributions")
            /\ resp' = Ok
    /\ UNCHANGED <<authVars, ret, secret_files, mem_files, root_files,
                   next_id, libVars>>

NextRecovery ==
    \/ query_handler
    \/ contribute_handler("note")
    \/ \E id \in ContributionIds : approve_handler(id)

SpecRecovery == InitLedger /\ [][NextRecovery]_vars

\* ---- requests in flight on the staging files --------------------------------
\* The handlers below are those of query, contribute, approve_contribution and
\* reject_contribution after their dependencies have passed, cut into the
\* steps at which another request can run.  stats carries a field "file":
\* "absent", "empty" (truncated, nothing written yet), "garbled" (no JSON
\* text) or "json"; its counters are what _increment_stat would parse.
Procs == 1..NumProcs

ZeroCounters == [queries |-> 0, staged |-> 0, approved_contributions |-> 0]

StatsFile(state, c) ==
    [file |-> state, queries |-> c.queries, staged |-> c.staged,
     approved_contributions |-> c.approved_contributions]

\* _increment_stat, lines 428-431: json.loads, {} when it raises
Parsed(f) ==
    IF f.file = "json"
    THEN [queries |-> f.queries, staged |-> f.staged,
          approved_contributions |-> f.approved_contributions]
    ELSE ZeroCounters

\* a line of pending.jsonl that is no JSON text
GarbledLine == [id |-> 0 - 1, sanitised |-> "garbled", staged_at |-> 0]

\* the counter a handler increments
KeyOf(op) ==
    CASE op = "query" -> "queries"
      [] op = "contribute" -> "staged"
      [] OTHER -> "approved_contributions"

\* the handler's first step
FirstStep(op) ==
    CASE op = "query" -> "exists"
      [] op = "contribute" -> "append"
      [] OTHER -> "p_exists"

NewProc(op) ==
    [op |-> op, id |-> 0, pc |-> FirstStep(op), counters |-> ZeroCounters,
     lines |-> <<>>, found |-> LoadedPending, status |-> 0,
     counted |-> FALSE]

Ops == {"query", "contribute", "approve", "reject"}

\* p moves to the step pc
Goto(p, pc) == procs' = [procs EXCEPT ![p].pc = pc]

\* p ends with the status
Finish(p, status) ==
    procs' = [procs EXCEPT ![p].pc = "done", ![p].status = status]

othersInFlight == <<authVars, ret, secret_files, mem_files, root_files, resp,
                    stored, outside, runs, world, out, age_days, base>>

\* _locked_file, line 414: os.path.exists(path)
stat_exists(p) ==
    /\ procs[p].pc = "exists"
    /\ Goto(p, IF stats.file = "absent" THEN "create" ELSE "lock")
    /\ UNCHANGED <<stats, pending, approved, next_id, flock, othersInFlight>>

\* _locked_file, line 415: open(path, "w") truncates
stat_create(p) ==
    /\ procs[p].pc = "create"
    /\ stats' = StatsFile("empty", ZeroCounters)
    /\ Goto(p, "fill")
    /\ UNCHANGED <<pending, approved, next_id, flock, othersInFlight>>

\* _locked_file, line 416: "{}" reaches the file at offset 0 when the with
\* block closes it, over whatever another request has written since
stat_fill(p) ==
    /\ procs[p].pc = "fill"
    /\ stats' = IF stats.file = "empty" \/ Parsed(stats) = ZeroCounters
                THEN StatsFile("json", ZeroCounters)
                ELSE StatsFile("garbled", ZeroCounters)
    /\ Goto(p, "lock")
    /\ UNCHANGED <<pending, approved, next_id, flock, othersInFlight>>

\* _locked_file, lines 417-419: open(path, "r+") and flock(LOCK_EX)
stat_lock(p) ==
    /\ procs[p].pc = "lock"
    /\ flock["stats"] = 0
    /\ flock' = [flock EXCEPT !["stats"] = p]
    /\ Goto(p, "read")
    /\ UNCHANGED <<stats, pending, approved, next_id, othersInFlight>>

\* _increment_stat, lines 428-432
stat_read(p) ==
    /\ procs[p].pc = "read"
    /\ procs' = [procs EXCEPT
                   ![p].pc = "truncate",
                   ![p].counters = _increment_stat(Parsed(stats),
                                                   KeyOf(procs[p].op))]
    /\ UNCHANGED <<stats, pending, approved, next_id, flock, othersInFlight>>

\* _increment_stat, lines 433-435: seek(0) and truncate() empty the file; the
\* text written stays in the buffer of the file object
stat_truncate(p) ==
    /\ procs[p].pc = "truncate"
    /\ stats' = StatsFile("empty", ZeroCounters)
    /\ Goto(p, "unlock")
    /\ UNCHANGED <<pending, approved, next_id, flock, othersInFlight>>

\* _locked_file, line 422: flock(LOCK_UN)
stat_unlock(p) ==
    /\ procs[p].pc = "unlock"
    /\ flock' = [flock EXCEPT !["stats"] = 0]
    /\ Goto(p, "flush")
    /\ UNCHANGED <<stats, pending, approved, next_id, othersInFlight>>

\* _locked_file, line 423: close() writes the buffer at offset 0; over a text
\* another request has written since, the result is the new text when that
\* is the longer one and no JSON text otherwise
stat_flush(p) ==
    /\ procs[p].pc = "flush"
    /\ \/ stats' = StatsFile("json", procs[p].counters)
       \/ /\ stats.file \in {"json", "garbled"}
          /\ Parsed(stats) # ZeroCounters \/ stats.file = "garbled"
          /\ stats' = StatsFile("garbled", ZeroCounters)
    /\ procs' = [procs EXCEPT
                   ![p].counted = TRUE,
                   ![p].pc = IF procs[p].op = "query" THEN "gate" ELSE "done",
                   ![p].status = IF procs[p].op = "query" THEN 0 ELSE 200]
    /\ UNCHANGED <<pending, approved, next_id, flock, othersInFlight>>

\* query, lines 265-280: the ledger is read without the lock
query_gate(p) ==
    /\ procs[p].pc = "gate"
    /\ Finish(p, IF stats.file \in {"empty", "garbled"} THEN 500
                 ELSE IF Throttled(Parsed(stats), age_days) THEN 429
                 ELSE 200)
    /\ UNCHANGED <<stats, pending, approved, next_id, flock, othersInFlight>>

\* contribute, lines 362-366: open(staging_path, "a"), one line, close
contribute_append(p) ==
    /\ procs[p].pc = "append"
    /\ next_id < MaxContributions
    /\ next_id' = next_id + 1
    /\ pending' = [exists |-> TRUE,
                   lines |-> Append(PendingLines,
                       [id |-> next_id + 1,
                        sanitised |-> _sanitise_content("mail a@b.io"),
                        staged_at |-> now])]
    /\ procs' = [procs EXCEPT ![p].pc = "exists", ![p].id = next_id + 1]
    /\ UNCHANGED <<stats, approved, flock, othersInFlight>>

\* approve_contribution and reject_contribution, lines 471 and 503
pending_exists(p) ==
    /\ procs[p].pc = "p_exists"
    /\ IF pending.exists THEN Goto(p, "p_lock") ELSE Finish(p, 404)
    /\ UNCHANGED <<stats, pending, approved, next_id, flock, othersInFlight>>

\* _locked_file on pending.jsonl
pending_lock(p) ==
    /\ procs[p].pc = "p_lock"
    /\ flock["pending"] = 0
    /\ flock' = [flock EXCEPT !["pending"] = p]
    /\ Goto(p, "p_read")
    /\ UNCHANGED <<stats, pending, approved, next_id, othersInFlight>>

\* lines 474-485 and 506-517: the lines are read; a line that is no JSON
\* raises, an id that is not there is answered 404, and the lock is released
pending_read(p) ==
    /\ procs[p].pc = "p_read"
    /\ IF \E k \in DOMAIN PendingLines : PendingLines[k] = GarbledLine
       THEN /\ Finish(p, 500)
            /\ flock' = [flock EXCEPT !["pending"] = 0]
       ELSE IF Others(procs[p].id) = PendingLines
       THEN /\ Finish(p, 404)
            /\ flock' = [flock EXCEPT !["pending"] = 0]
       ELSE /\ procs' = [procs EXCEPT ![p].pc = "p_truncate",
                                      ![p].lines = Others(procs[p].id),
                                      ![p].found = Found(procs[p].id)]
            /\ UNCHANGED flock
    /\ UNCHANGED <<stats, pending, approved, next_id, othersInFlight>>

\* lines 486-488 and 518-520: seek(0), truncate(); the lines written stay in
\* the buffer
pending_truncate(p) ==
    /\ procs[p].pc = "p_truncate"
    /\ pending' = [exists |-> TRUE, lines |-> <<>>]
    /\ Goto(p, "p_unlock")
    /\ UNCHANGED <<stats, approved, next_id, flock, othersInFlight>>

\* _locked_file, line 422
pending_unlock(p) ==
    /\ procs[p].pc = "p_unlock"
    /\ flock' = [flock EXCEPT !["pending"] = 0]
    /\ Goto(p, "p_flush")
    /\ UNCHANGED <<stats, pending, approved, next_id, othersInFlight>>

\* _locked_file, line 423: close() writes the kept lines at offset 0, over
\* the lines appended or written since the truncation; what is left of those
\* beyond the new text is no JSON line
pending_flush(p) ==
    /\ procs[p].pc = "p_flush"
    /\ \/ /\ pending.lines = <<>> \/ procs[p].lines = <<>>
          /\ pending' = [exists |-> TRUE,
                         lines |-> IF procs[p].lines = <<>>
                                   THEN pending.lines ELSE procs[p].lines]
       \/ /\ pending.lines # <<>>
          /\ procs[p].lines # <<>>
          /\ \E rest \in {<<>>, <<GarbledLine>>} :
                pending' = [exists |-> TRUE, lines |-> procs[p].lines \o rest]
    /\ IF procs[p].op = "approve" THEN Goto(p, "approved") ELSE Finish(p, 200)
    /\ UNCHANGED <<stats, approved, next_id, flock, othersInFlight>>

\* approve_contribution, lines 489-494: one line appended to approved.jsonl
approved_append(p) ==
    /\ procs[p].pc = "approved"
    /\ approved' = Append(approved,
           [id |-> procs[p].found.id,
            sanitised |-> procs[p].found.sanitised,
            staged_at |-> procs[p].found.staged_at,
            approved_at |-> now])
    /\ Goto(p, "exists")
    /\ UNCHANGED <<stats, pending, next_id, flock, othersInFlight>>

\* the counters of a vault that has served requests before
LoadedLedger == [queries |-> 3, staged |-> 1, approved_contributions |-> 0]

\* requests arrive together at a fresh vault, or at one that holds a pending
\* contribution of an earlier request
InitInFlight ==
    /\ now = 0
    /\ tokens = <<InitialOwner>>
    /\ saved = tokens
    /\ attempts = [k \in Keys |-> <<>>]
    /\ env = [VAULT_ENV |-> "production", VAULT_TOKEN |-> NoToken]
    /\ issued = {1}
    /\ revoked = {}
    /\ limited = {}
    /\ ret = [op |-> "init"]
    /\ secret_files = [f \in SecretFiles |-> Absent]
    /\ mem_files = [f \in MemPaths |->
                      IF f = "MEMORY.md" THEN _encrypt(DefaultMemory)
                      ELSE Absent]
    /\ \/ /\ stats = StatsFile("absent", ZeroCounters)
          /\ pending = Absent
       \/ /\ stats = StatsFile("json", LoadedLedger)
          /\ pending = [exists |-> TRUE, lines |-> <<LoadedPending>>]
    /\ base = Parsed(stats)
    /\ approved = <<>>
    /\ root_files = NoRootFiles
    /\ next_id = 0
    /\ resp = [status |-> 0, detail |-> "no request yet", headers |-> NoHeaders]
    /\ stored = [n \in SecretNames |-> None]
    /\ outside = [f \in OutsidePaths |-> Absent]
    /\ runs = 0
    /\ world = NoSources
    /\ out = [status |-> "none"]
    /\ age_days = GraceDays
    /\ procs \in [Procs -> {NewProc(op) : op \in Ops}]
    /\ flock = NoLock

NextInFlight ==
    \E p \in Procs :
       \/ stat_exists(p)
       \/ stat_create(p)
       \/ stat_fill(p)
       \/ stat_lock(p)
       \/ stat_read(p)
       \/ stat_truncate(p)
       \/ stat_unlock(p)
       \/ stat_flush(p)
       \/ query_gate(p)
       \/ contribute_append(p)
       \/ pending_exists(p)
       \/ pending_lock(p)
       \/ pending_read(p)
       \/ pending_truncate(p)
       \/ pending_unlock(p)
       \/ pending_flush(p)
       \/ approved_append(p)

SpecInFlight == InitInFlight /\ [][NextInFlight]_vars

\* ---- authentication at the request surface, under a running clock ---------
NextSurface ==
    \/ \E token \in Tokens : vault_info(token)
    \/ \E token \in Tokens, expires \in ExpiryValues :
          route_create_token(token, [role |-> "subscriber", label |-> "",
                                     expires |-> expires])
    \/ Tick

SpecSurface == Init /\ [][NextSurface]_vars

\* ---- properties ------------------------------------------------------------
\* the stored record that validate finds for the token, if any
StoredFor(token) == {i \in DOMAIN tokens : tokens[i].token_hash = _hash(token)}

\* the attempts of a list that lie inside the window at time t
InWindow(list, t) ==
    Cardinality({i \in DOMAIN list : t - list[i] < RateLimitWindow})

\* the number of attempts of a list made at time t
At(list, t) == Cardinality({i \in DOMAIN list : list[i] = t})

\* C1, as stated: once revoke(t) has returned for an issued token t, every
\* later validate(t) returns no record.
C1_RevokedNeverValidates ==
    (ret.op = "validate" /\ ret.token \in revoked) => ret.result = None

\* C1, amended: once revoke(t) has returned for an issued token t, every later
\* validate(t) returns no record, unless the runtime mode is not production
\* and t equals the operator-supplied bypass token.
C1_RevokedFailsUnlessBypass ==
    (/\ ret.op = "validate"
     /\ ret.token \in revoked
     /\ ~BypassActive(env, ret.token)) => ret.result = None

\* a revoked token was presented, the limiter admitted the attempt, and
\* validate returned no record while another token is still stored
C1_Witness ==
    /\ ret.op = "validate"
    /\ ret.token \in revoked
    /\ ~BypassActive(env, ret.token)
    /\ Len(attempts[TokenKey(ret.token)]) < RateLimitMax
    /\ ret.result = None
    /\ tokens # <<>>

\* C2: validate(t) returns no record for a stored token whose expiry lies in
\* the past, for every expiry value a token can be created with.
C2_ExpiredNeverValidates ==
    [][\A token \in Tokens :
        (/\ validate(token)
         /\ \E i \in StoredFor(token) :
               ExpiryLiesInPast(tokens[i].expires, now))
        => ret'.result.kind # "record"]_vars

\* C3: once RateLimitMax attempts of a prefix lie inside the window, the next
\* validate with that prefix returns no record, whatever the token.
C3_LimitFailsClosed ==
    [][\A token \in Tokens :
        (/\ validate(token)
         /\ InWindow(attempts[TokenKey(token)], now) >= RateLimitMax)
        => ret'.result = None]_vars

\* a token that would authenticate was refused by the limiter
C3_Witness ==
    /\ ret.op = "validate"
    /\ ret.result = None
    /\ Authenticate(tokens, env, ret.token, now).kind = "record"
    /\ InWindow(attempts[TokenKey(ret.token)], now) >= RateLimitMax
    /\ TokenKey(ret.token) \in limited

\* C4: once the window has elapsed since the recorded attempts of a prefix, a
\* validate with a correct token of that prefix returns its record; and an
\* attempt the limiter rejects is not recorded.
C4_SucceedsAfterWindow ==
    [][\A token \in Tokens :
        validate(token) =>
          LET k == TokenKey(token) IN
          /\ (/\ \A i \in DOMAIN attempts[k] :
                    now - attempts[k][i] >= RateLimitWindow
              /\ Authenticate(tokens, env, token, now).kind = "record")
             => ret'.result.kind = "record"
          /\ InWindow(attempts[k], now) >= RateLimitMax
             => /\ Len(attempts'[k]) <= Len(attempts[k])
                /\ At(attempts'[k], now) = At(attempts[k], now)]_vars

\* a prefix that was locked out validates again after the window
C4_Witness ==
    /\ ret.op = "validate"
    /\ ret.result.kind = "record"
    /\ TokenKey(ret.token) \in limited
    /\ now >= RateLimitWindow
    /\ attempts[TokenKey(ret.token)] = <<now>>

\* C5: in production mode validate returns a record only when the hash of the
\* presented token is that of a stored, unexpired record, and never the bypass
\* record.
C5_ProductionOnlyStoredUnexpired ==
    [][\A token \in Tokens :
        (/\ validate(token)
         /\ env.VAULT_ENV = "production"
         /\ ret'.result.kind = "record")
        => /\ ret'.result.record.token_hash # EnvBypassHash
           /\ \E i \in StoredFor(token) :
                 /\ ret'.result.record = tokens[i]
                 /\ ~ExpiryLiesInPast(tokens[i].expires, now)]_vars

\* the values a stored label can take
StoredLabels ==
    {<<r.label>> : r \in TokenRequests}
        \cup {DefaultLabel(r.role, "agent") : r \in TokenRequests}
        \cup {<<"initial-owner">>}

\* C8: the persisted token store holds only hashes of issued tokens, never a
\* raw token, and list_tokens returns neither a raw token nor a token hash.
C8_OnlyHashesPersisted ==
    /\ \A i \in DOMAIN saved :
          /\ saved[i].token_hash \notin Tokens
          /\ saved[i].token_hash \in {_hash(t) : t \in issued}
          /\ DOMAIN saved[i] = {"token_hash", "role", "agent", "label",
                                "created", "expires"}
          /\ saved[i].role \in Roles
          /\ saved[i].agent \in {"agent", "default"}
          /\ saved[i].label \in StoredLabels
          /\ saved[i].created \in Times
          /\ saved[i].expires \in ExpiryValues
    /\ ret.op = "list_tokens" =>
          \A i \in DOMAIN ret.listing :
            /\ DOMAIN ret.listing[i] = {"role", "agent", "label", "created",
                                        "expires"}
            /\ ret.listing[i].role \in Roles
            /\ ret.listing[i].agent \in {"agent", "default"}
            /\ ret.listing[i].label \in StoredLabels
            /\ ret.listing[i].created \in Times
            /\ ret.listing[i].expires \in ExpiryValues

\* list_tokens has listed a store of two tokens after a revoke
C8_Witness ==
    /\ ret.op = "list_tokens"
    /\ Len(ret.listing) = MaxStored
    /\ Len(saved) = MaxStored
    /\ revoked # {}

\* C9: every stored token record has role owner or subscriber.
C9_RoleIsOwnerOrSubscriber ==
    \A i \in DOMAIN tokens : tokens[i].role \in {"owner", "subscriber"}

\* the token is not stored and is not the active bypass token
Unknown(token) == StoredFor(token) = {} /\ ~BypassActive(env, token)

\* the token is stored with an expiry that lies in the past
Expired(token) ==
    /\ ~BypassActive(env, token)
    /\ \E i \in StoredFor(token) : ExpiryLiesInPast(tokens[i].expires, now)

\* the limiter has no attempt left for the token's prefix
RateLimited(token) == ~Admits(Pruned(attempts[TokenKey(token)], now))

\* C6: a request with an unknown, an expired or a rate-limited token gets
\* one and the same authentication-failure response.
C6_UniformAuthFailure ==
    [][\A token \in Tokens :
        (/\ vault_info(token)
         /\ Unknown(token) \/ Expired(token) \/ RateLimited(token))
        => resp' = Answer("vault_info", token, AuthFailure)]_vars

\* C7: a request refused because the validation rate limit of its token is
\* exhausted gets a response that carries a retry-after duration.
C7_RateLimitCarriesRetryAfter ==
    [][\A token \in Tokens :
        (vault_info(token) /\ RateLimited(token))
        => "Retry-After" \in DOMAIN resp'.headers]_vars

\* a request to an owner-only operation
OwnerOnlyRequest(token) ==
    \/ list_secrets(token)
    \/ \E name \in {"api"} : get_secret(token, name)
    \/ \E name \in {"api"}, value \in {"s3cret"} :
          set_secret(token, name, value)
    \/ \E name \in {"api"} : delete_secret(token, name)
    \/ \E mode \in {"write", "append"} :
          write_memory(token, "MEMORY.md", "text", mode)
    \/ append_today_log(token, "entry")
    \/ contribute(token, "mail a@b.io")
    \/ pending_contributions(token)
    \/ \E id \in 1..MaxContributions : approve_contribution(token, id)
    \/ \E id \in 1..MaxContributions : reject_contribution(token, id)
    \/ route_list_tokens(token)
    \/ \E body \in TokenBodies : route_create_token(token, body)
    \/ vault_export(token)
    \/ \E doc \in ImportDocs, overwrite \in BOOLEAN :
          vault_import(token, doc, overwrite)

\* the token is stored, unexpired and not an owner token
ValidNonOwner(token) ==
    \E i \in StoredFor(token) :
        /\ tokens[i].role # "owner"
        /\ ~ExpiryLiesInPast(tokens[i].expires, now)

\* C10, as stated: a request with a valid non-owner token to an owner-only
\* operation is refused with PermissionDenied and changes nothing.
C10_NonOwnerPermissionDenied ==
    [][\A token \in Tokens :
        (ValidNonOwner(token) /\ OwnerOnlyRequest(token))
        => /\ resp'.status = PermissionDenied.status
           /\ resp'.detail = PermissionDenied.detail
           /\ UNCHANGED <<secret_files, mem_files, pending, approved, stats,
                          tokens, saved>>]_vars

\* C10, amended: a request with a valid non-owner token to an owner-only
\* operation is refused and changes nothing, unless the token is the bypass
\* token of a server outside production; the refusal is PermissionDenied
\* whenever validate returns the token's record, and the generic
\* authentication failure when the limiter rejects the attempt.  With the
\* bypass the admitted request is served as the owner's.
C10_NonOwnerRefused ==
    [][\A token \in Tokens :
        (ValidNonOwner(token) /\ OwnerOnlyRequest(token))
        => /\ (~BypassActive(env, token) \/ RateLimited(token))
              => /\ UNCHANGED <<secret_files, mem_files, pending, approved,
                                stats, root_files, next_id, tokens, saved,
                                issued>>
                 /\ resp'.status # Ok.status
           /\ (/\ ~BypassActive(env, token)
               /\ ValidateResult(tokens, attempts, env, token, now).kind
                    = "record")
              => /\ resp'.status = PermissionDenied.status
                 /\ resp'.detail = PermissionDenied.detail
           /\ RateLimited(token)
              => /\ resp'.status = AuthFailure.status
                 /\ resp'.detail = AuthFailure.detail
           /\ (BypassActive(env, token) /\ ~RateLimited(token))
              => resp'.status \notin {AuthFailure.status,
                                      PermissionDenied.status}]_vars

\* a subscriber token was refused with PermissionDenied on a vault that
\* holds a secret
C10_Witness ==
    /\ resp.status = PermissionDenied.status
    /\ resp.detail = PermissionDenied.detail
    /\ secret_files["api"].exists
    /\ \E i \in DOMAIN tokens : tokens[i].role = "subscriber"

\* C11: retrieve(name) returns the value of the last store(name, value) when
\* no store or delete of that same name came after it, whatever was done to
\* other names in between.
C11_RetrieveReturnsStored ==
    [][\A name \in SecretNames :
        (stored[name].kind = "value" /\ KeyStore_retrieve(name))
        => ret'.result = stored[name]]_vars

\* C12: retrieve(n2) never yields what was stored under another name n1: when
\* the file n2 resolves to was written by store(n1, v) with n1 # n2, the
\* result is none; a value that retrieve returns was stored under n2 itself.
C12_OtherNameFailsClosed ==
    [][\A n2 \in SecretNames :
        KeyStore_retrieve(n2)
        => /\ (/\ secret_files[_secret_path(n2)].exists
               /\ secret_files[_secret_path(n2)].name # n2)
              => ret'.result = None
           /\ ret'.result # None
              => /\ secret_files[_secret_path(n2)].name = n2
                 /\ stored[n2] = ret'.result]_vars

\* retrieve under a name that sanitises to the file of another name's secret
\* returned none
C12_Witness ==
    /\ ret.op = "retrieve"
    /\ ret.result = None
    /\ secret_files[_secret_path(ret.name)].exists
    /\ secret_files[_secret_path(ret.name)].name # ret.name

\* the canonical path of a document name
RealOf(filename) == realpath(join(Root, filename))

\* the text read(path) returns in the state reached by the step
ReadAfter(filename) == ReadAt(RealOf(filename))'

\* C13: for every document path inside the store root, the logs namespace
\* included, read(path) after write(path, content) in overwrite mode returns
\* exactly content.
C13_OverwriteReadsBack ==
    [][\A filename \in DocNames, content \in DocContents :
        (InsideRoot(RealOf(filename))
           /\ MemoryStore_write(filename, content, "write"))
        => ReadAfter(filename) = [kind |-> "text", text |-> <<content>>]]_vars

\* the call before this step was an append to the document at real
AppendedBefore(real) ==
    /\ ret.op \in {"write", "append"}
    /\ ret.result = [kind |-> "written"]
    /\ ret.mode = "append"
    /\ ret.resolved.real = real

\* an append of content to the document, by either entry point
Appends(filename, content) ==
    \/ MemoryStore_append(filename, content)
    \/ MemoryStore_write(filename, content, "append")

\* C14: after two sequential appends to one document, of a and then of b, the
\* text read back starts with the text the document held before, and holds a
\* and, after it, b behind that text.
C14_AppendsInOrder ==
    [][\A filename \in DocNames, b \in DocContents :
        (/\ InsideRoot(RealOf(filename))
         /\ AppendedBefore(RealOf(filename))
         /\ Appends(filename, b))
        => /\ ReadAfter(filename).kind = "text"
           /\ LET text == ReadAfter(filename).text
                  old  == Len(ret.before)
              IN /\ Len(text) > old
                 /\ SubSeq(text, 1, old) = ret.before
                 /\ \E i, j \in (old + 1)..Len(text) :
                       /\ i < j
                       /\ text[i] = ret.content
                       /\ text[j] = b]_vars

\* the default document after the appends of a and of b
C14_Witness ==
    /\ ret.op = "append"
    /\ ret.result = [kind |-> "written"]
    /\ ret.content = "b"
    /\ ret.before = DefaultMemory \o <<"\n", "a", "\n">>
    /\ _decrypt(mem_files["MEMORY.md"])
         = DefaultMemory \o <<"\n", "a", "\n", "\n", "b", "\n">>

\* C15: read, write and append of a name whose canonical path lies outside
\* the store root fail with PermissionError and change no file; no step of
\* the store changes a file outside the root or returns its text.
C15_NoEscape ==
    [][/\ outside' = outside
       /\ \A filename \in DocNames :
            (/\ ~InsideRoot(RealOf(filename))
             /\ \/ MemoryStore_read(filename)
                \/ \E content \in DocContents :
                      \/ Appends(filename, content)
                      \/ MemoryStore_write(filename, content, "write"))
            => /\ ret'.result = PermissionError
               /\ mem_files' = mem_files]_vars

\* a write under a name that leaves the root through the logs directory was
\* refused
C15_Witness ==
    /\ ret.op = "write"
    /\ ret.filename = "logs/../../memory2/x"
    /\ ret.result = PermissionError
    /\ ~outside["/vault/memory2/x"].exists

\* the file is a token made over bytes that were a token already
DoubleEncrypted(raw) ==
    /\ raw.exists
    /\ "inner" \in DOMAIN raw
    /\ raw.inner

\* C16: a migration pass run right after a migration pass leaves every file
\* as the first pass left it, and no pass encrypts a file that carries the
\* encrypted-format prefix.
C16_MigrationIdempotent ==
    [][_migrate_plaintext_files
        => /\ ret.op = "migrate" => mem_files' = mem_files
           /\ \A f \in MemPaths :
                 /\ StartsWithPrefix(mem_files[f]) => mem_files'[f] = mem_files[f]
                 /\ ~DoubleEncrypted(mem_files'[f])]_vars

\* two passes have run in a row over a root that held a plaintext note, which
\* carries the token of the first pass
C16_Witness ==
    /\ ret.op = "migrate"
    /\ ret.run = 2
    /\ \E f \in MemPaths :
          /\ mem_files[f].exists
          /\ "iv" \in DOMAIN mem_files[f]
          /\ mem_files[f].iv = 1
          /\ mem_files[f].body = <<"note">>

\* the hits the last query pooled
PoolOf == out.all_results

InResults(i) == \E k \in DOMAIN out.results : out.results[k] = i
InAlsoFound(i) == \E k \in DOMAIN out.also_found : out.also_found[k] = i

\* two pooled hits with one fingerprint
SameFingerprint(i, j) ==
    Fingerprint(PoolOf[i].content) = Fingerprint(PoolOf[j].content)

\* hit i is the most recent of its fingerprint, the first pooled of those
MostRecent(i) ==
    \A k \in DOMAIN PoolOf :
        SameFingerprint(i, k)
        => \/ PoolOf[k].timestamp < PoolOf[i].timestamp
           \/ PoolOf[k].timestamp = PoolOf[i].timestamp /\ k >= i

\* the fingerprints of the pool and the number of hits that lose their slot
FingerprintsOf == {Fingerprint(PoolOf[i].content) : i \in DOMAIN PoolOf}
Losers == Len(PoolOf) - Cardinality(FingerprintsOf)

\* no two entries of results share a fingerprint
UniqueResults ==
    \A k, l \in DOMAIN out.results :
        SameFingerprint(out.results[k], out.results[l]) => k = l

\* C17, as stated: no two entries of results share a fingerprint, and of two
\* pooled hits with one fingerprint and different timestamps the more recent
\* one is in results and the older one in also_found.
C17_RecentInResultsOlderInAlsoFound ==
    out.status = "ok"
    => /\ UniqueResults
       /\ \A i, j \in DOMAIN PoolOf :
            (/\ SameFingerprint(i, j)
             /\ MostRecent(i)
             /\ PoolOf[j].timestamp < PoolOf[i].timestamp)
            => InResults(i) /\ InAlsoFound(j)

\* C17, amended: no two entries of results share a fingerprint and the older
\* of two hits with one fingerprint is never in results; the most recent one
\* is in results when the pool has at most ResultsCap fingerprints, and the
\* older one is in also_found when at most AlsoFoundCap hits lose their slot.
C17_DedupWithinCaps ==
    out.status = "ok"
    => /\ UniqueResults
       /\ \A i, j \in DOMAIN PoolOf :
            (/\ SameFingerprint(i, j)
             /\ PoolOf[j].timestamp < PoolOf[i].timestamp)
            => /\ ~InResults(j)
               /\ (MostRecent(i) /\ Cardinality(FingerprintsOf) <= ResultsCap)
                  => InResults(i)
               /\ Losers <= AlsoFoundCap => InAlsoFound(j)

\* two spellings of one text with different stamps were pooled; the newer is
\* in results, the older in also_found
C17_Witness ==
    /\ out.status = "ok"
    /\ \E i, j \in DOMAIN PoolOf :
          /\ SameFingerprint(i, j)
          /\ PoolOf[i].content # PoolOf[j].content
          /\ PoolOf[j].timestamp < PoolOf[i].timestamp
          /\ InResults(i)
          /\ InAlsoFound(j)

\* C18, as stated: every pooled hit is in results or in also_found, for any
\* number of pooled hits.
C18_EveryHitInOutput ==
    out.status = "ok"
    => \A i \in DOMAIN PoolOf : InResults(i) \/ InAlsoFound(i)

\* C18, amended: results and also_found hold pooled hits, none of them twice;
\* results holds one hit for each fingerprint up to ResultsCap and also_found
\* the hits that lost their slot up to AlsoFoundCap, so that every pooled hit
\* is in one of them whenever neither cap is exceeded; total_hits counts the
\* pool.
C18_EveryHitWithinCaps ==
    out.status = "ok"
    => /\ \A i \in DOMAIN PoolOf : ~(InResults(i) /\ InAlsoFound(i))
       /\ \A k, l \in DOMAIN out.also_found :
             out.also_found[k] = out.also_found[l] => k = l
       /\ \A k \in DOMAIN out.also_found : out.also_found[k] \in DOMAIN PoolOf
       /\ \A k \in DOMAIN out.results : out.results[k] \in DOMAIN PoolOf
       /\ Len(out.results) = IF Cardinality(FingerprintsOf) < ResultsCap
                             THEN Cardinality(FingerprintsOf) ELSE ResultsCap
       /\ Len(out.also_found) = IF Losers < AlsoFoundCap
                                THEN Losers ELSE AlsoFoundCap
       /\ out.total_hits = Len(PoolOf)
       /\ (Cardinality(FingerprintsOf) <= ResultsCap /\ Losers <= AlsoFoundCap)
          => \A i \in DOMAIN PoolOf : InResults(i) \/ InAlsoFound(i)

\* a pool of at least three hits from more than one source, some of them
\* duplicates, all of which are in the output
C18_Witness ==
    /\ out.status = "ok"
    /\ Len(PoolOf) >= 3
    /\ Len(out.also_found) >= 1
    /\ Len(out.results) >= 2
    /\ Len(out.results) + Len(out.also_found) = Len(PoolOf)
    /\ \E i, j \in DOMAIN PoolOf : PoolOf[i].source # PoolOf[j].source

\* C19: results is ordered by timestamp descending, and an entry of results is
\* the hit of its fingerprint with the greatest timestamp, the first pooled
\* among equal ones, whatever the source types; a newer knowledge-vault entry
\* pooled with the older identical personal note is results[0] and the note is
\* in also_found.
C19_RecencyNotSource ==
    out.status = "ok"
    => /\ \A k, l \in DOMAIN out.results :
            k < l => PoolOf[out.results[k]].timestamp
                       >= PoolOf[out.results[l]].timestamp
       /\ \A k \in DOMAIN out.results : MostRecent(out.results[k])
       /\ \A i, j \in DOMAIN PoolOf :
            (/\ Len(PoolOf) = 2
             /\ SameFingerprint(i, j)
             /\ PoolOf[i].source_type = "knowledge_vault"
             /\ PoolOf[j].source_type = "personal_vault"
             /\ PoolOf[i].timestamp > PoolOf[j].timestamp)
            => /\ out.results = <<i>>
               /\ out.also_found = <<j>>

\* the personal note and the newer knowledge-vault entry of the same text
C19_Witness ==
    /\ out.status = "ok"
    /\ Len(PoolOf) = 2
    /\ Len(out.results) = 1
    /\ Len(out.also_found) = 1
    /\ PoolOf[out.results[1]].source_type = "knowledge_vault"
    /\ PoolOf[out.also_found[1]].source_type = "personal_vault"
    /\ PoolOf[out.results[1]].timestamp > PoolOf[out.also_found[1]].timestamp

\* the source is failing: a directory that cannot be opened, a peer that is
\* unreachable or answers no JSON or malformed items, a failing network
KvFails == world.kv.status = "unreadable"
RemoteFails ==
    \/ world.remote.status # "ok"
    \/ world.remote.hits = BadContent
NetworkFails == world.network.status = "error"

\* C20: a failing source never makes query raise; it is recorded with zero
\* hits in sources_checked and the hits of the other sources are returned.
C20_SourceFailureNeverAborts ==
    /\ out.status # "raised"
    /\ out.status = "ok"
       => /\ KvFails => out.sources_checked[2].hits = 0
          /\ RemoteFails => out.sources_checked[3].hits = 0
          /\ (NetworkFails /\ out.include_network)
             => out.sources_checked[4].hits = 0

\* ---- the access gate and the contribution ledger: properties ---------------
\* approved / max(queries, 1) < 0.10, the ratio below which the tier is limited
BelowTenth(ledger) ==
    10 * ledger.approved_contributions < AtLeastOne(ledger.queries)

\* the ids of the pending ledger
PendingIds == {PendingLines[k].id : k \in DOMAIN PendingLines}

\* C21: once the grace period has elapsed and more than MinQueries queries
\* are recorded, a query is rejected with ThrottleExceeded exactly when the
\* ratio approved / max(queries, 1) is below 0.10, and is served otherwise.
C21_ThrottledBelowTenth ==
    [][\A token \in LedgerCallers :
          (/\ ~_is_grace_active(age_days)
           /\ Passed(token, FALSE)
           /\ route_query(token, FALSE)
           /\ stats'.queries > MinQueries)
          => (resp' = ThrottleExceeded <=> BelowTenth(stats'))]_vars

\* C22: while the vault is younger than GraceDays days no query is answered
\* ThrottleExceeded, whatever the counters are.
C22_GraceNeverThrottles ==
    [][\A token \in LedgerCallers :
          (/\ _is_grace_active(age_days)
           /\ route_query(token, FALSE))
          => resp' # ThrottleExceeded]_vars

\* during grace, the sixtieth query of a vault with one approved contribution
\* has been counted and served
C22_Witness ==
    /\ _is_grace_active(age_days)
    /\ stats.queries = 60
    /\ stats.approved_contributions = 1
    /\ resp = Ok

\* C23: contribute by the owner, and approve by the owner of a contribution
\* that is pending, succeed whatever the access tier is: the contribution is
\* staged, respectively approved, and the answer is 200.
C23_ContributionNeverGated ==
    [][\A token \in LedgerCallers :
          /\ (/\ Passed(token, TRUE)
              /\ contribute(token, "mail a@b.io"))
             => /\ resp'.status = 200
                /\ next_id' \in PendingIds'
          /\ \A id \in ContributionIds :
               (/\ Passed(token, TRUE)
                /\ id \in PendingIds
                /\ approve_contribution(token, id))
               => /\ resp'.status = 200
                  /\ \E k \in DOMAIN approved' : approved'[k].id = id]_vars

\* a contribution staged by this run has been approved and the query that
\* followed was rejected: the ratio was no better when it was staged
C23_Witness ==
    /\ resp = ThrottleExceeded
    /\ Throttled(stats, age_days)
    /\ \E k \in DOMAIN approved : approved[k].id = 1

\* C24: the tier reported by stats is grace when the vault is younger than
\* GraceDays days, otherwise full when the ratio is at least 0.10, and limited
\* only when grace has elapsed, the ratio is below 0.10 and more than
\* MinQueries queries are recorded.
C24_TierFromCounters ==
    [][\A token \in LedgerCallers :
          (/\ Passed(token, FALSE)
           /\ vault_stats(token))
          => /\ _is_grace_active(age_days) => resp'.detail = "grace"
             /\ (~_is_grace_active(age_days) /\ ~BelowTenth(stats))
                => resp'.detail = "full"
             /\ resp'.detail = "limited"
                => /\ ~_is_grace_active(age_days)
                   /\ BelowTenth(stats)
                   /\ stats.queries > MinQueries]_vars

C27_MissingIdNotFound ==
    [][/\ \A token \in LedgerCallers, id \in ContributionIds :
            (/\ Passed(token, TRUE)
             /\ id \notin PendingIds
             /\ \/ approve_contribution(token, id)
                \/ reject_contribution(token, id))
            => /\ resp'.status = 404
               /\ UNCHANGED <<pending, approved, stats>>
       /\ \A k, l \in DOMAIN approved' :
            approved'[k].id = approved'[l].id => k = l]_vars

\* the pending contribution of the earlier run was approved, and a further
\* approve or reject of an id that is not pending was answered 404
C27_Witness ==
    /\ resp = NotFound("contribution")
    /\ 0 \notin PendingIds
    /\ \E k \in DOMAIN approved : approved[k].id = 0
    /\ stats.approved_contributions = Len(approved)

\* ---- requests in flight: properties ----------------------------------------
\* every request in flight has been answered
AllDone == \A p \in Procs : procs[p].pc = "done"

\* the requests whose increment of the key has completed
Counted(key) ==
    {p \in Procs : procs[p].counted /\ KeyOf(procs[p].op) = key}

LedgerKeys == {"queries", "staged", "approved_contributions"}

\* C28: when the increments that ran concurrently have completed, every
\* counter is its initial value plus the number of its increments.
C28_NoIncrementLost ==
    AllDone
    => \A key \in LedgerKeys :
          Parsed(stats)[key] = base[key] + Cardinality(Counted(key))

\* C29: a contribute that ran while another id was approved or rejected has
\* left its record in the pending ledger, and the ledger holds JSON lines only.
C29_StagedRecordKept ==
    AllDone
    => \A p \in Procs :
          (/\ procs[p].op = "contribute"
           /\ \E q \in Procs : procs[q].op \in {"approve", "reject"})
          => /\ procs[p].id \in PendingIds
             /\ GarbledLine \notin {PendingLines[k] : k \in DOMAIN PendingLines}

\* C26: approved_contributions has grown by one for each approve that was
\* answered 200, and by nothing else.
C26_OnlyApproveIncrements ==
    AllDone
    => Parsed(stats).approved_contributions
         = base.approved_contributions
           + Cardinality({p \in Procs : /\ procs[p].op = "approve"
                                        /\ procs[p].status = 200})

\* C30: no counter is negative, and none is lower after the requests than it
\* was before them.
C30_CountersNeverDecrease ==
    /\ \A key \in LedgerKeys : Parsed(stats)[key] >= 0
    /\ AllDone => \A key \in LedgerKeys : Parsed(stats)[key] >= base[key]

\* a text begins with another
IsPrefix(p, text) == Len(p) <= Len(text) /\ SubSeq(text, 1, Len(p)) = p

\* C31: every export document has the empty list as its secrets, whatever
\* the secret store holds, and an import leaves every secret file as it was,
\* also when the imported document carries secrets.
C31_SecretsNeverPorted ==
    [][/\ ret'.op = "export" => ret'.doc.secrets = <<>>
       /\ \A doc \in PortableDocs, overwrite \in BOOLEAN :
             amps_import(doc, overwrite) => secret_files' = secret_files]_vars

\* an export made while the secret store holds a secret, after the document
\* that carries secrets was imported
C31_Witness ==
    /\ ret.op = "export"
    /\ secret_files["api"].exists
    /\ root_files.stats_imported = 1
    /\ ret.doc.secrets = <<>>

C33_PortsTheMemoryStore ==
    /\ ret.op = "export" /\ ReadOrEmpty(mem_files, "MEMORY.md") # DefaultMemory
         => ret.doc.memory["long_term"] = ReadOrEmpty(mem_files, "MEMORY.md")
    /\ ret.op = "read" /\ root_files.stats_imported = 1
         => \E k \in DOMAIN ret.result.text : ret.result.text[k] = "imported"

\* the lines of a file and the long tokens of the last search
LinesOf(f) == _decrypt(mem_files[f])

Long(q) == {lower(q[k]) : k \in {j \in DOMAIN q : Len(q[j]) > 2}}

HoldsToken(line, toks) ==
    \E t \in toks, k \in DOMAIN line : Occurs(t, lower(line[k]))

Hits(f, toks) ==
    {n \in DOMAIN LinesOf(f) : /\ LinesOf(f)[n] # <<>>
                               /\ HoldsToken(LinesOf(f)[n], toks)}

\* C34: search returns a file only if every query token longer than two
\* characters occurs, whatever its case, in the text of the file; for such
\* a file it returns the lines that are not blank and hold a token, the
\* first five of them in the order of the file; a query without a token
\* longer than two characters returns nothing.
C34_SearchAllThenAny ==
    ret.op = "search" =>
      LET toks == Long(ret.query)
      IN  /\ toks = {} => ret.result = {}
          /\ \A r \in ret.result :
                /\ \A t \in toks : \E n \in DOMAIN LinesOf(r.file) :
                      HoldsToken(LinesOf(r.file)[n], {t})
                /\ Len(r.matches) <= 5
                /\ \A k \in DOMAIN r.matches :
                      /\ r.matches[k].n \in Hits(r.file, toks)
                      /\ r.matches[k].line = LinesOf(r.file)[r.matches[k].n]
                      /\ Cardinality({n \in Hits(r.file, toks) :
                                        n < r.matches[k].n}) = k - 1
                /\ Len(r.matches) = 5
                     \/ Len(r.matches) = Cardinality(Hits(r.file, toks))
          /\ toks # {} =>
                \A f \in MemPaths :
                  (/\ mem_files[f].exists
                   /\ \A t \in toks : \E n \in DOMAIN LinesOf(f) :
                         HoldsToken(LinesOf(f)[n], {t}))
                  => \E r \in ret.result : r.file = f

\* a search with two tokens that returned a file cut at five lines and left
\* out a file that holds only one of the tokens
C34_Witness ==
    /\ ret.op = "search"
    /\ Cardinality(Long(ret.query)) = 2
    /\ \E r \in ret.result :
          /\ Len(r.matches) = 5
          /\ Cardinality(Hits(r.file, Long(ret.query))) > 5
    /\ \E f \in MemPaths :
          /\ mem_files[f].exists
          /\ Hits(f, Long(ret.query)) # {}
          /\ \A r \in ret.result : r.file # f

\* C35: every name list_secrets returns can be retrieved: retrieve of it
\* yields a value.
C35_ListedIsRetrievable ==
    \A n \in SecretList(secret_files) : retrieve(secret_files, n) # None

\* C36: a query creates, changes and removes no file of the personal memory
\* store and none of a knowledge vault directory it searches.
C36_QueryReadsOnly ==
    [][(\E include_network \in BOOLEAN : query(include_network))
         => /\ mem_files' = mem_files
            /\ world'.kv.seeded = world.kv.seeded]_vars

\* what the queries counter exceeds twenty times the approved contributions by
Deficit(ledger) == ledger.queries - 20 * ledger.approved_contributions

C38_GateReadsWholeLedger ==
    \A p \in Procs :
       procs[p].op = "query" /\ procs[p].pc = "done" => procs[p].status # 500

\* C39: while no approve request is in progress, approved_contributions is
\* the number of records of the approved ledger, however the contribute,
\* approve, reject and query requests interleave.  Stated for the states in
\* which every request has been answered, where no request is in progress.
C39_CounterMatchesApprovedLedger ==
    AllDone
    => Parsed(stats).approved_contributions
         = base.approved_contributions + Len(approved)

\* C40: after a migration pass, read of every document that was a legacy
\* plaintext before the pass returns the text the document held before it,
\* also when that text begins with the prefix of the tokens.
C40_LegacyTextSurvivesMigration ==
    [][_migrate_plaintext_files
        => \A f \in MemPaths :
              mem_files[f].exists /\ ~mem_files[f].fernet
              => ReadStored(mem_files'[f])
                   = [kind |-> "text", text |-> mem_files[f].body]]_vars

====
